---- MODULE Spec2Model ----
(***************************************************************************)
(* A model of the DHCP server of net-programming-learning-rs               *)
(* (src/dhcpserver): the packet codec, the lease store (repository.rs),    *)
(* the address pool and the message handlers of dhcp.rs, run by one worker *)
(* thread per datagram (main.rs).                                          *)
(*                                                                         *)
(* Conventions.  A byte buffer is a TLA+ sequence; the Rust index i is the *)
(* TLA+ index i + 1 (operator At).  An Ipv4Addr is its four octets, a      *)
(* MacAddr its six.  A Rust panic is a value with panicked = TRUE: it ends *)
(* the worker thread, and poisons every std::sync lock the thread holds.   *)
(***************************************************************************)
EXTENDS Integers, Sequences, FiniteSets, TLC

(* ------------------------------------------------------------------ *)
(* Field offsets and sizes of dhcp.rs                                  *)
(* ------------------------------------------------------------------ *)
OP == 0
HTYPE == 1
HLEN == 2
XID == 4
SECS == 8
FLAGS == 10
CIADDR == 12
YIADDR == 16
SIADDR == 20
GIADDR == 24
CHADDR == 28
SNAME == 44
OPTIONS == 236
MAGIC_COOKIE == <<99, 130, 83, 99>>
DHCP_SIZE == 400
BOOTREQUEST == 1
BOOTREPLY == 2
HTYPE_ETHER == 1
PACKET_MINIMUM_SIZE == 237

(* DhcpOptions: code() and len() *)
MessageType == [code |-> 53, len |-> 1]
IpAddressLeaseTime == [code |-> 51, len |-> 4]
ServerIdentifier == [code |-> 54, len |-> 4]
RequestedIpAddress == [code |-> 50, len |-> 4]
SubnetMask == [code |-> 1, len |-> 4]
Router == [code |-> 3, len |-> 4]
Dns == [code |-> 6, len |-> 4]
End == [code |-> 255, len |-> 0]

(* MessageType values *)
DHCPDISCOVER == 1
DHCPOFFER == 2
DHCPREQUEST == 3
DHCPACK == 5
DHCPNAK == 6
DHCPRELEASE == 7

(* ------------------------------------------------------------------ *)
(* Byte buffers and slices                                             *)
(* ------------------------------------------------------------------ *)
At(buf, i) == buf[i + 1]

Zeros(n) == [i \in 1..n |-> 0]

(* buf[start..end]: Rust panics unless start <= end <= buf.len() *)
SliceOk(buf, start, end) == start <= end /\ end <= Len(buf)

Slice(buf, start, end) == SubSeq(buf, start + 1, end)

(* buf[i] = b *)
SetAt(buf, i, b) == [buf EXCEPT ![i + 1] = b]

(* buf[start..end].copy_from_slice(data): panics on a bad range or on a *)
(* length mismatch                                                      *)
CopyOk(buf, start, end, data) ==
    SliceOk(buf, start, end) /\ end - start = Len(data)

CopyFromSlice(buf, start, end, data) ==
    [i \in 1..Len(buf) |-> IF i > start /\ i <= end THEN data[i - start] ELSE buf[i]]

(* ------------------------------------------------------------------ *)
(* Ipv4Addr (std) and Ipv4Network (ipnetwork)                          *)
(* ------------------------------------------------------------------ *)
UNSPECIFIED == <<0, 0, 0, 0>>

u32_from(ip) == ((ip[1] * 256 + ip[2]) * 256 + ip[3]) * 256 + ip[4]

Ipv4Addr_from_u32(n) ==
    <<(n \div 16777216) % 256, (n \div 65536) % 256, (n \div 256) % 256, n % 256>>

(* util::ipv4_addr_from: Some only for a 4-byte slice *)
ipv4_addr_from(buf) ==
    IF Len(buf) = 4 THEN [some |-> TRUE, ip |-> <<buf[1], buf[2], buf[3], buf[4]>>]
    ELSE [some |-> FALSE, ip |-> UNSPECIFIED]

RECURSIVE Pow2(_)
Pow2(n) == IF n = 0 THEN 1 ELSE 2 * Pow2(n - 1)

RECURSIVE LeadingOnes(_, _)
LeadingOnes(byte, bit) ==
    IF bit = 0 \/ (byte \div Pow2(bit - 1)) % 2 = 0 THEN 0
    ELSE 1 + LeadingOnes(byte, bit - 1)

(* ipnetwork::ipv4_mask_to_prefix for a contiguous mask *)
ipv4_mask_to_prefix(mask) ==
    LET l1 == LeadingOnes(mask[1], 8)
        l2 == LeadingOnes(mask[2], 8)
        l3 == LeadingOnes(mask[3], 8)
        l4 == LeadingOnes(mask[4], 8)
    IN IF l1 < 8 THEN l1
       ELSE IF l2 < 8 THEN 8 + l2
       ELSE IF l3 < 8 THEN 16 + l3
       ELSE 24 + l4

(* Ipv4Network::new(addr, prefix) *)
Ipv4Network_new(addr, prefix) == [addr |-> addr, prefix |-> prefix]

HostSize(net) == Pow2(32 - net.prefix)

(* Ipv4Network::network(): addr & mask *)
network(net) == (u32_from(net.addr) \div HostSize(net)) * HostSize(net)

(* Ipv4Network::broadcast(): addr | !mask *)
broadcast(net) == Ipv4Addr_from_u32(network(net) + HostSize(net) - 1)

(* Ipv4Network::contains(ip) *)
contains(net, ip) ==
    u32_from(ip) \div HostSize(net) = u32_from(net.addr) \div HostSize(net)

(* Ipv4Network::iter(): every address from network() to broadcast(), ascending *)
Ipv4Network_iter(net) ==
    [i \in 1..HostSize(net) |-> Ipv4Addr_from_u32(network(net) + i - 1)]

(* ------------------------------------------------------------------ *)
(* DhcpPacket: the view over a received or built buffer                *)
(* ------------------------------------------------------------------ *)
(* DhcpPacket::new: Some only when buf.len() > PACKET_MINIMUM_SIZE *)
DhcpPacket_new(buf) == Len(buf) > PACKET_MINIMUM_SIZE

op(buf) == At(buf, OP)

xid(buf) == Slice(buf, XID, SECS)

flags(buf) == Slice(buf, FLAGS, CIADDR)

ciaddr(buf) == Slice(buf, CIADDR, CIADDR + 4)

giaddr(buf) == Slice(buf, GIADDR, GIADDR + 4)

(* chaddr(): the first six bytes of buf[CHADDR..SNAME] *)
chaddr(buf) == Slice(buf, CHADDR, CHADDR + 6)

options(buf) == Slice(buf, OPTIONS, Len(buf))

(* Results of DhcpPacket::option: Some(data), None, or a panic (an index *)
(* or a slice of `options` out of bounds)                                *)
OptSome(data) == [kind |-> "some", data |-> data]
OptNone == [kind |-> "none", data |-> <<>>]
OptPanic == [kind |-> "panic", data |-> <<>>]

(* The while loop of DhcpPacket::option from `index` on.  A TLV that does *)
(* not match moves index by buf_idx + len, with buf_idx = index + 2.      *)
RECURSIVE option_loop(_, _, _)
option_loop(opts, index, code) ==
    IF index >= Len(opts) THEN OptPanic
    ELSE IF At(opts, index) = End.code THEN OptNone
    ELSE IF At(opts, index) = code THEN
        IF index + 1 >= Len(opts) THEN OptPanic
        ELSE LET len == At(opts, index + 1)
                 buf_idx == index + 2
             IN IF SliceOk(opts, buf_idx, buf_idx + len)
                THEN OptSome(Slice(opts, buf_idx, buf_idx + len))
                ELSE OptPanic
    ELSE IF At(opts, index) = 0 THEN option_loop(opts, index + 1, code)
    ELSE IF index + 1 >= Len(opts) THEN OptPanic
    ELSE LET len == At(opts, index + 1)
             buf_idx == index + 2
         IN option_loop(opts, index + (buf_idx + len), code)

option(buf, opt) == option_loop(options(buf), Len(MAGIC_COOKIE), opt.code)

(* DhcpPacket::requested_ip_addr: option(RequestedIpAddress)? then *)
(* util::ipv4_addr_from; a panic of option() passes through        *)
requested_ip_addr(buf) ==
    LET o == option(buf, RequestedIpAddress)
    IN IF o.kind = "panic" THEN [panicked |-> TRUE, some |-> FALSE, ip |-> UNSPECIFIED]
       ELSE IF o.kind = "none" THEN [panicked |-> FALSE, some |-> FALSE, ip |-> UNSPECIFIED]
       ELSE [panicked |-> FALSE, some |-> ipv4_addr_from(o.data).some,
             ip |-> ipv4_addr_from(o.data).ip]

(* ------------------------------------------------------------------ *)
(* Building a reply.  A builder value is the packet under construction *)
(* with the `cursor` local of make_dhcp_packet.                        *)
(* ------------------------------------------------------------------ *)
Builder(buf, cursor) == [panicked |-> FALSE, buf |-> buf, cursor |-> cursor]
BuilderPanic(b) == [b EXCEPT !.panicked = TRUE]

(* self.buf[i] = v *)
set_byte(b, i, v) ==
    IF b.panicked THEN b
    ELSE IF i >= Len(b.buf) THEN BuilderPanic(b)
    ELSE [b EXCEPT !.buf = SetAt(b.buf, i, v)]

(* self.buf[start..end].copy_from_slice(data) *)
set_slice(b, start, end, data) ==
    IF b.panicked THEN b
    ELSE IF ~CopyOk(b.buf, start, end, data) THEN BuilderPanic(b)
    ELSE [b EXCEPT !.buf = CopyFromSlice(b.buf, start, end, data)]

set_op(b, v) == set_byte(b, OP, v)
set_htype(b, v) == set_byte(b, HTYPE, v)
set_hlen(b, v) == set_byte(b, HLEN, v)
set_xid(b, v) == set_slice(b, XID, SECS, v)
set_flags(b, v) == set_slice(b, FLAGS, CIADDR, v)
set_ciaddr(b, ip) == set_slice(b, CIADDR, YIADDR, ip)
set_yiaddr(b, ip) == set_slice(b, YIADDR, SIADDR, ip)
set_giaddr(b, ip) == set_slice(b, GIADDR, CHADDR, ip)

(* A set_chaddr that writes the six bytes at CHADDR *)
set_chaddr_at_offset(b, mac_addr) ==
    set_slice(b, CHADDR, CHADDR + Len(mac_addr), mac_addr)

(* set_chaddr: self.buf[CHADDR..mac_addr.len()].copy_from_slice(&mac_addr) *)
set_chaddr(b, mac_addr) == set_slice(b, CHADDR, Len(mac_addr), mac_addr)

set_magic_cookie(b) ==
    LET w == set_slice(b, b.cursor, b.cursor + Len(MAGIC_COOKIE), MAGIC_COOKIE)
    IN IF w.panicked THEN w ELSE [w EXCEPT !.cursor = b.cursor + Len(MAGIC_COOKIE)]

(* set_option(option, data, cursor); data is Some(bytes) or None *)
DataSome(v) == [some |-> TRUE, v |-> v]
DataNone == [some |-> FALSE, v |-> <<>>]

set_option(b, opt, data) ==
    LET b1 == set_byte(b, b.cursor, opt.code)
    IN IF b1.panicked \/ opt.code = End.code THEN b1
       ELSE LET b2 == set_byte(b1, b.cursor + 1, opt.len)
                c2 == b.cursor + 2
                b3 == IF data.some THEN set_slice(b2, c2, c2 + Len(data.v), data.v)
                      ELSE b2
            IN IF b3.panicked THEN b3 ELSE [b3 EXCEPT !.cursor = c2 + 1]

(* util::big_endian_from *)
big_endian_from(i) == Ipv4Addr_from_u32(i)

(* The options make_dhcp_packet writes after the cookie, in its order *)
ReplyOptions(svr, message_type) ==
    << [opt |-> MessageType, data |-> DataSome(<<message_type>>)],
       [opt |-> IpAddressLeaseTime, data |-> DataSome(svr.lease_time)],
       [opt |-> ServerIdentifier, data |-> DataSome(svr.svr_addr)],
       [opt |-> SubnetMask, data |-> DataSome(svr.subnet_mask)],
       [opt |-> Router, data |-> DataSome(svr.default_gateway)],
       [opt |-> Dns, data |-> DataSome(svr.dns_svr)],
       [opt |-> End, data |-> DataNone] >>

(* The calls of set_option, one after the other on the same cursor *)
RECURSIVE set_options(_, _)
set_options(b, opts) ==
    IF opts = <<>> THEN b
    ELSE set_options(set_option(b, Head(opts).opt, Head(opts).data), Tail(opts))

(* DhcpServer::make_dhcp_packet; svr holds the server's configuration fields *)
make_dhcp_packet(svr, recv, message_type, ip_addr_to_lease) ==
    LET b0 == Builder(Zeros(DHCP_SIZE), OPTIONS)
        b1 == set_hlen(set_htype(set_op(b0, BOOTREPLY), HTYPE_ETHER), 6)
        b2 == set_xid(b1, xid(recv))
        b3 == IF message_type = DHCPACK THEN set_ciaddr(b2, ciaddr(recv)) ELSE b2
        b4 == set_yiaddr(b3, ip_addr_to_lease)
        b5 == set_flags(b4, flags(recv))
        b6 == set_giaddr(b5, giaddr(recv))
        b7 == set_chaddr(b6, chaddr(recv))
    IN set_options(set_magic_cookie(b7), ReplyOptions(svr, message_type))

(* ------------------------------------------------------------------ *)
(* repository.rs: the lease_entries table.  A connection or transaction *)
(* value is the sequence of rows it sees.                               *)
(* ------------------------------------------------------------------ *)
(* The columns of lease_entries and the value a column takes when an   *)
(* INSERT does not name it (the table is created outside the sources). *)
LeaseEntriesColumns == {"mac_addr", "ip_addr", "deleted"}

ColumnDefault == [mac_addr |-> <<>>, ip_addr |-> [dotted |-> <<>>], deleted |-> 0]

(* Ipv4Addr::to_string and str::parse::<Ipv4Addr> (std): the dotted text *)
to_string(ip) == [dotted |-> ip]
parse(text) == text.dotted

DbOk(rows) == [ok |-> TRUE, rows |-> rows]
DbErr(rows) == [ok |-> FALSE, rows |-> rows]

(* INSERT INTO lease_entries (columns of `values`) VALUES (...): an error *)
(* when a named column is not a column of the table                       *)
sql_insert(rows, values) ==
    IF ~(DOMAIN values \subseteq LeaseEntriesColumns) THEN DbErr(rows)
    ELSE DbOk(Append(rows,
            [c \in LeaseEntriesColumns |->
                IF c \in DOMAIN values THEN values[c] ELSE ColumnDefault[c]]))

(* The declared type of the column `deleted` (an integer flag); like    *)
(* the columns, it is fixed where the table is created.                 *)
DeletedAffinity == "INTEGER"

(* SQLite's `deleted = ?` for a parameter bound as TEXT: a column of     *)
(* numeric affinity converts the text before comparing, any other       *)
(* column holds no value equal to a text                                *)
sql_deleted_eq(stored, text) ==
    IF DeletedAffinity = "INTEGER"
    THEN stored = (IF text = "1" THEN 1 ELSE 0)
    ELSE FALSE

(* SELECT ip_addr FROM lease_entries WHERE deleted = ?, the parameter   *)
(* being the string "1" or "0"                                          *)
find_all_addrs(conn, deleted) ==
    LET flag == IF deleted THEN "1" ELSE "0"
        hit == SelectSeq(conn, LAMBDA r : sql_deleted_eq(r.deleted, flag))
    IN [i \in 1..Len(hit) |-> parse(hit[i].ip_addr)]

(* A lookup that finds no lease, whatever the table holds *)
find_addr_nothing(conn, mac_addr) == [some |-> FALSE, ip |-> UNSPECIFIED]

(* SELECT ip_addr FROM lease_entries WHERE mac_addr = ?1: the first row *)
find_addr(conn, mac_addr) ==
    LET hit == SelectSeq(conn, LAMBDA r : r.mac_addr = mac_addr)
    IN IF Len(hit) > 0 THEN [some |-> TRUE, ip |-> parse(hit[1].ip_addr)]
       ELSE [some |-> FALSE, ip |-> UNSPECIFIED]

(* A RELEASE that removes the rows of the mac address from the table *)
destroy_removing(mac_addr, tx) == DbOk(SelectSeq(tx, LAMBDA r : r.mac_addr # mac_addr))

(* UPDATE lease_entries SET deleted = 1 WHERE mac_addr = ?2 *)
destroy(mac_addr, tx) ==
    DbOk([i \in 1..Len(tx) |->
            IF tx[i].mac_addr = mac_addr THEN [tx[i] EXCEPT !.deleted = 1] ELSE tx[i]])

(* SELECT COUNT of the rows of lease_entries WHERE mac_addr = ? *)
count_for(mac_addr, tx) == Len(SelectSeq(tx, LAMBDA r : r.mac_addr = mac_addr))

(* INSERT INTO lease_entries (mac_addr, ipv4_addr) VALUES (?1, ?2) *)
create(entry, tx) ==
    sql_insert(tx, [mac_addr |-> entry[1], ipv4_addr |-> to_string(entry[2])])

(* UPDATE lease_entries SET ip_addr = ?2 WHERE mac_addr = ?1 *)
update(entry, tx) ==
    DbOk([i \in 1..Len(tx) |->
            IF tx[i].mac_addr = entry[1]
            THEN [tx[i] EXCEPT !.ip_addr = to_string(entry[2])] ELSE tx[i]])

create_or_update(entry, tx) ==
    IF count_for(entry[1], tx) = 0 THEN create(entry, tx) ELSE update(entry, tx)

(* ------------------------------------------------------------------ *)
(* DhcpServer: construction and the address pool                       *)
(* ------------------------------------------------------------------ *)
Reverse(s) == [i \in 1..Len(s) |-> s[Len(s) + 1 - i]]

SeqToSet(s) == {s[i] : i \in 1..Len(s)}

(* init_addr_pool reading the rows of every lease, deleted or not *)
init_addr_pool_any_row(conn, env, prefixed_network_addr) ==
    LET used_ip_addrs ==
            find_all_addrs(conn, FALSE) \o find_all_addrs(conn, TRUE)
            \o <<env.network_addr, env.default_gateway, env.dhcp_svr_addr,
                 env.dns_svr_addr, broadcast(prefixed_network_addr)>>
        ret == SelectSeq(Ipv4Network_iter(prefixed_network_addr),
                         LAMBDA addr : addr \notin SeqToSet(used_ip_addrs))
    IN Reverse(ret)

(* init_addr_pool: the addresses of the network not in use, highest first *)
init_addr_pool(conn, env, prefixed_network_addr) ==
    LET used_ip_addrs ==
            find_all_addrs(conn, FALSE)
            \o <<env.network_addr, env.default_gateway, env.dhcp_svr_addr,
                 env.dns_svr_addr, broadcast(prefixed_network_addr)>>
        ret == SelectSeq(Ipv4Network_iter(prefixed_network_addr),
                         LAMBDA addr : addr \notin SeqToSet(used_ip_addrs))
    IN Reverse(ret)

(* The Ipv4Network of DhcpServer::new *)
prefixed_network_addr_of(env) ==
    Ipv4Network_new(env.network_addr, ipv4_mask_to_prefix(env.subnet_mask))

(* DhcpServer::new: the configuration fields of the server *)
DhcpServer_new(env) ==
    [network_addr |-> prefixed_network_addr_of(env),
     svr_addr |-> env.dhcp_svr_addr,
     default_gateway |-> env.default_gateway,
     subnet_mask |-> env.subnet_mask,
     dns_svr |-> env.dns_svr_addr,
     lease_time |-> big_endian_from(env.lease_time)]

PoolNone(pool) == [some |-> FALSE, ip |-> UNSPECIFIED, pool |-> pool]

(* A pool that hands out its first element instead of its last *)
find_available_ip_addr_front(pool) ==
    IF Len(pool) = 0 THEN PoolNone(pool)
    ELSE [some |-> TRUE, ip |-> pool[1], pool |-> SubSeq(pool, 2, Len(pool))]

(* find_available_ip_addr: Vec::pop *)
find_available_ip_addr(pool) ==
    IF Len(pool) = 0 THEN PoolNone(pool)
    ELSE [some |-> TRUE, ip |-> pool[Len(pool)], pool |-> SubSeq(pool, 1, Len(pool) - 1)]

(* find_ip_addr: remove the first element equal to ip_addr *)
find_ip_addr(pool, ip_addr) ==
    LET idx == {i \in 1..Len(pool) : pool[i] = ip_addr}
    IN IF idx = {} THEN PoolNone(pool)
       ELSE LET i == CHOOSE j \in idx : \A k \in idx : j <= k
            IN [some |-> TRUE, ip |-> pool[i],
                pool |-> SubSeq(pool, 1, i - 1) \o SubSeq(pool, i + 1, Len(pool))]

(* An insert that keeps the storage sorted in descending order *)
insert_sorted(pool, ip_addr) ==
    SelectSeq(pool, LAMBDA x : u32_from(x) >= u32_from(ip_addr)) \o <<ip_addr>>
        \o SelectSeq(pool, LAMBDA x : u32_from(x) < u32_from(ip_addr))

(* release_ip_addr: lock.insert(0, ciaddr) *)
insert_front(pool, ip_addr) == <<ip_addr>> \o pool

(* ------------------------------------------------------------------ *)
(* Inputs: configurations (shared/env.json), stored leases             *)
(* (shared/dhcp.db) and datagrams read by recv_from                    *)
(* ------------------------------------------------------------------ *)
NumWorkers == 2
MaxDatagrams == 2
MaxPoolOps == 4
InboundSize == 300

Workers == 1..NumWorkers

Host(n) == <<10, 0, 0, n>>
OtherNet(n) == <<10, 0, 1, n>>

Mac(n) == <<170, 187, 204, 221, 238, n>>

Env(net, mask, gw, svr, dns) ==
    [network_addr |-> net, subnet_mask |-> mask, default_gateway |-> gw,
     dhcp_svr_addr |-> svr, dns_svr_addr |-> dns, lease_time |-> 3600]

(* 10.0.0.0/29: hosts .1 to .6, gateway .1, server .6, DNS .5 *)
DefaultEnv == Env(Host(0), <<255, 255, 255, 248>>, Host(1), Host(6), Host(5))

Environments ==
    { DefaultEnv,
      Env(Host(8), <<255, 255, 255, 248>>, Host(9), Host(14), Host(14)),
      Env(Host(16), <<255, 255, 255, 252>>, Host(17), Host(18), OtherNet(53)),
      Env(OtherNet(0), <<255, 255, 255, 240>>, OtherNet(1), OtherNet(14), Host(5)) }

Lease(mac, ip, deleted) ==
    [mac_addr |-> mac, ip_addr |-> to_string(ip), deleted |-> deleted]

(* Stored leases the server starts with: at most one row per mac address *)
StoredAddrs == {Host(2), Host(3), Host(10), OtherNet(3)}

RowsOf(mac) ==
    {<<>>} \cup {<<Lease(mac, ip, d)>> : ip \in StoredAddrs, d \in {0, 1}}

StartupStores == {r1 \o r2 : r1 \in RowsOf(Mac(1)), r2 \in RowsOf(Mac(2))}

InitialStores ==
    { <<>>,
      <<Lease(Mac(1), Host(2), 0)>>,
      <<Lease(Mac(1), Host(2), 0), Lease(Mac(2), Host(3), 0)>> }

(* A client's message: what it means (type, mac, ciaddr, the options it *)
(* carries, <<>> for an absent one) and how its options are laid out.   *)
Message(type, mac, ci, svr, req, layout) ==
    [type |-> type, mac |-> mac, ciaddr |-> ci, svr |-> svr, req |-> req,
     layout |-> layout, size |-> InboundSize, opcode |-> BOOTREQUEST]

(* The same message in a datagram of `size` bytes, or with another op *)
Sized(m, size) == [m EXCEPT !.size = size]
WithOpcode(m, opcode) == [m EXCEPT !.opcode = opcode]

TLV(code, data) == IF data = <<>> THEN <<>> ELSE <<code, Len(data)>> \o data

(* TLVs one after the other, as clients send them *)
Canonical(m) ==
    <<53, 1, m.type>> \o TLV(54, m.svr) \o TLV(50, m.req) \o <<255>>

(* The same options with Pad bytes between them *)
Padded(m) ==
    LET first == IF m.svr # <<>> THEN TLV(54, m.svr) ELSE TLV(50, m.req)
        second == IF m.svr # <<>> THEN TLV(50, m.req) ELSE <<>>
    IN <<53, 1, m.type>> \o Zeros(4)
       \o (IF first = <<>> THEN <<>> ELSE first \o Zeros(11))
       \o (IF second = <<>> THEN <<>> ELSE second \o Zeros(28))
       \o <<255>>

(* The datagram of a message: the fixed fields, the cookie, the options, *)
(* zero-filled to `size` bytes                                           *)
Datagram(m, opcode, size) ==
    LET opts == IF m.layout = "padded" THEN Padded(m) ELSE Canonical(m)
        full == <<opcode, 1, 6, 0>> \o <<18, 52, m.mac[6], m.type>> \o <<0, 0>>
                \o <<128, 0>> \o m.ciaddr \o Zeros(12) \o m.mac \o Zeros(10)
                \o Zeros(192) \o MAGIC_COOKIE \o opts \o Zeros(size)
    IN SubSeq(full, 1, size)

Messages ==
    << Message(DHCPDISCOVER, Mac(1), UNSPECIFIED, <<>>, <<>>, "canonical"),
       Message(DHCPDISCOVER, Mac(1), UNSPECIFIED, <<>>, <<>>, "padded"),
       Message(DHCPDISCOVER, Mac(2), UNSPECIFIED, <<>>, Host(3), "padded"),
       Message(DHCPREQUEST, Mac(1), UNSPECIFIED, Host(6), Host(2), "padded"),
       Message(DHCPREQUEST, Mac(1), UNSPECIFIED, Host(6), Host(2), "canonical"),
       Message(DHCPREQUEST, Mac(2), UNSPECIFIED, Host(6), Host(2), "padded"),
       Message(DHCPREQUEST, Mac(1), UNSPECIFIED, Host(250), Host(2), "padded"),
       Message(DHCPREQUEST, Mac(1), UNSPECIFIED, Host(250), Host(2), "canonical"),
       Message(DHCPREQUEST, Mac(1), UNSPECIFIED, <<>>, Host(2), "padded"),
       Message(DHCPREQUEST, Mac(1), UNSPECIFIED, <<>>, Host(3), "padded"),
       Message(DHCPREQUEST, Mac(1), Host(2), <<>>, <<>>, "padded"),
       Message(DHCPREQUEST, Mac(1), OtherNet(3), <<>>, <<>>, "padded"),
       Message(DHCPRELEASE, Mac(1), Host(2), <<>>, <<>>, "canonical"),
       Message(DHCPRELEASE, Mac(2), Host(2), <<>>, <<>>, "canonical"),
       Message(DHCPRELEASE, Mac(1), UNSPECIFIED, <<>>, <<>>, "canonical"),
       Sized(Message(DHCPDISCOVER, Mac(1), UNSPECIFIED, <<>>, <<>>, "padded"),
             PACKET_MINIMUM_SIZE - 1),
       Sized(Message(DHCPDISCOVER, Mac(1), UNSPECIFIED, <<>>, <<>>, "padded"),
             PACKET_MINIMUM_SIZE),
       Sized(Message(DHCPDISCOVER, Mac(1), UNSPECIFIED, <<>>, <<>>, "padded"),
             PACKET_MINIMUM_SIZE + 1),
       Sized(Message(DHCPDISCOVER, Mac(1), UNSPECIFIED, <<>>, <<>>, "padded"),
             PACKET_MINIMUM_SIZE + 12),
       WithOpcode(Message(DHCPDISCOVER, Mac(1), UNSPECIFIED, <<>>, <<>>, "padded"),
                  BOOTREPLY) >>

(* recv_buf[..size] of each datagram the socket delivers *)
Inbound ==
    [i \in 1..Len(Messages) |->
        Datagram(Messages[i], Messages[i].opcode, Messages[i].size)]

(* The requests of full size, and the datagrams around the minimum size *)
Requests ==
    {i \in 1..Len(Messages) :
        Messages[i].size = InboundSize /\ Messages[i].opcode = BOOTREQUEST}

Boundary == (1..Len(Messages)) \ Requests

(* ------------------------------------------------------------------ *)
(* State                                                                *)
(* ------------------------------------------------------------------ *)
VARIABLES
    phase,        \* "boot" before DhcpServer::new has run, then "serving"
    env,          \* util::Environment
    db,           \* the committed rows of lease_entries
    addr_pool,    \* DhcpServer.addr_pool
    pool_lock,    \* the worker holding the write guard of addr_pool, 0 when free
    db_lock,      \* the worker holding the db_conn mutex, 0 when free
    db_poisoned,  \* the db_conn mutex is poisoned
    pc,           \* where each worker thread is
    pkt,          \* the datagram each worker handles (index of Inbound, 0: none)
    loc,          \* each worker's locals
    outcome,      \* how each worker's thread ended
    fault,        \* the failure of the store or the socket a worker met
    sent,         \* the datagrams broadcast so far, each with its request
    received,     \* the number of datagrams read by the main loop
    pool_hist,    \* the last call on the pool, its result and what preceded
    probe,        \* the call of is_ip_addr_available in progress and its result
    scan,         \* a call of DhcpPacket::option: its buffer, its code, its result
    built         \* the options of a reply being written: the packet, its cursor

vars == <<phase, env, db, addr_pool, pool_lock, db_lock, db_poisoned, pc, pkt, loc, outcome,
          fault, sent, received, pool_hist, probe, scan, built>>

workerVars == <<pc, pkt, loc, outcome, fault>>

NoLoc ==
    [n |-> 0, some |-> FALSE, ip |-> UNSPECIFIED, probed_busy |-> FALSE, reply |-> 0]

NoProbe ==
    [stage |-> "idle", target |-> UNSPECIFIED, listener |-> "none",
     heard |-> <<>>, window_open |-> FALSE, result |-> "none"]

NoScan ==
    [buf |-> <<>>, shape |-> "none", opt |-> End, called |-> FALSE, result |-> OptNone]

NoBuilt ==
    [stage |-> "none", b |-> Builder(<<>>, 0), todo |-> <<>>, written |-> <<>>]

NoHist ==
    [n |-> 0, op |-> "none", arg |-> UNSPECIFIED, before |-> <<>>,
     some |-> FALSE, ip |-> UNSPECIFIED,
     last_some |-> FALSE, last_ip |-> UNSPECIFIED,
     prev_some |-> FALSE, prev_ip |-> UNSPECIFIED, gave_back |-> FALSE]

Server == DhcpServer_new(env)

InitCommon ==
    /\ phase = "boot"
    /\ addr_pool = <<>>
    /\ db_lock = 0
    /\ db_poisoned = FALSE
    /\ pc = [w \in Workers |-> "idle"]
    /\ pkt = [w \in Workers |-> 0]
    /\ loc = [w \in Workers |-> NoLoc]
    /\ outcome = [w \in Workers |-> "none"]
    /\ fault = [w \in Workers |-> "none"]
    /\ sent = <<>>
    /\ received = 0
    /\ pool_hist = NoHist
    /\ pool_lock = 0
    /\ probe = NoProbe
    /\ scan = NoScan
    /\ built = NoBuilt

Init ==
    /\ env = DefaultEnv
    /\ db \in InitialStores
    /\ InitCommon

InitWide ==
    /\ env \in Environments
    /\ db \in StartupStores
    /\ InitCommon

(* DhcpServer::new: the pool is built from the store and the configuration *)
Startup ==
    /\ phase = "boot"
    /\ phase' = "serving"
    /\ addr_pool' = init_addr_pool(db, env, prefixed_network_addr_of(env))
    /\ UNCHANGED <<env, built, scan, probe, pool_lock, db, db_lock, db_poisoned, workerVars, sent, received, pool_hist>>

(* ------------------------------------------------------------------ *)
(* Worker threads: main.rs                                              *)
(* ------------------------------------------------------------------ *)
Buf(w) == Inbound[pkt[w]]

(* The thread of worker w ends: "ok" (Ok(())), "err" (an Err, logged),  *)
(* "panic", or "dropped" (the datagram is no request)                   *)
Ends(w, how, flt) ==
    /\ pc' = [pc EXCEPT ![w] = "done"]
    /\ outcome' = [outcome EXCEPT ![w] = how]
    /\ fault' = [fault EXCEPT ![w] = flt]
    /\ loc' = [loc EXCEPT ![w] = NoLoc]

Goto(w, label) ==
    /\ pc' = [pc EXCEPT ![w] = label]
    /\ UNCHANGED <<outcome, fault, loc>>

(* Goto with the local Option<Ipv4Addr> set *)
GotoWith(w, label, some, ip) ==
    /\ pc' = [pc EXCEPT ![w] = label]
    /\ loc' = [loc EXCEPT ![w].some = some, ![w].ip = ip]
    /\ UNCHANGED <<outcome, fault>>

(* Goto after is_ip_addr_available answered "already in use" *)
GotoBusy(w, label) ==
    /\ pc' = [pc EXCEPT ![w] = label]
    /\ loc' = [loc EXCEPT ![w].probed_busy = TRUE]
    /\ UNCHANGED <<outcome, fault>>

(* The MutexGuard of db_conn is dropped: normally, or while panicking *)
Unlock == db_lock' = 0 /\ UNCHANGED db_poisoned
UnlockPanicking == db_lock' = 0 /\ db_poisoned' = TRUE
KeepLock == UNCHANGED <<db_lock, db_poisoned>>

(* self.db_conn.lock().unwrap(): blocks while held, panics when poisoned *)
Lock(w, label) ==
    /\ db_lock = 0
    /\ IF db_poisoned
       THEN Ends(w, "panic", "none") /\ KeepLock
       ELSE db_lock' = w /\ UNCHANGED db_poisoned /\ Goto(w, label)

(* self.addr_pool.write().unwrap(): waits while the guard is held, and *)
(* the drop of the guard                                               *)
PoolWrite(w) == pool_lock = 0 /\ pool_lock' = w

PoolDrop(w) == pool_lock = w /\ pool_lock' = 0

(* send_broadcast_response of a built packet, for the request of worker w *)
Broadcast(w, buf) == sent' = Append(sent, [n |-> loc[w].n, buf |-> buf])

(* The main loop reads a datagram and spawns its thread, which parses it. *)
(* The new thread takes the first free slot.                              *)
main_recv_of(w, datagrams) ==
    /\ phase = "serving"
    /\ pc[w] \in {"idle", "done"}
    /\ \A v \in Workers : v < w => pc[v] \notin {"idle", "done"}
    /\ received < MaxDatagrams
    /\ \E i \in datagrams :
        /\ pkt' = [pkt EXCEPT ![w] = i]
        /\ IF DhcpPacket_new(Inbound[i]) /\ op(Inbound[i]) = BOOTREQUEST
           THEN /\ pc' = [pc EXCEPT ![w] = "handle_dhcp"]
                /\ outcome' = [outcome EXCEPT ![w] = "none"]
                /\ fault' = [fault EXCEPT ![w] = "none"]
                /\ loc' = [loc EXCEPT ![w] = [NoLoc EXCEPT !.n = received + 1]]
           ELSE Ends(w, "dropped", "none")
    /\ received' = received + 1
    /\ UNCHANGED <<phase, env, built, scan, probe, pool_lock, db, addr_pool, db_lock, db_poisoned, sent, pool_hist>>

main_recv(w) == main_recv_of(w, Requests)

handle_dhcp(w) ==
    /\ pc[w] = "handle_dhcp"
    /\ LET message == option(Buf(w), MessageType)
       IN IF message.kind = "panic" THEN Ends(w, "panic", "none")
          ELSE IF message.kind = "none" THEN Ends(w, "err", "none")
          ELSE IF Len(message.data) = 0 THEN Ends(w, "panic", "none")
          ELSE IF message.data[1] = DHCPDISCOVER THEN Goto(w, "offer_network_addr")
          ELSE IF message.data[1] = DHCPREQUEST THEN
              LET svr_id == option(Buf(w), ServerIdentifier)
              IN IF svr_id.kind = "panic" THEN Ends(w, "panic", "none")
                 ELSE IF svr_id.kind = "some" THEN Goto(w, "allocate_ip_addr")
                 ELSE Goto(w, "reallocate_ip_addr")
          ELSE IF message.data[1] = DHCPRELEASE THEN Goto(w, "release_ip_addr")
          ELSE Ends(w, "err", "none")
    /\ UNCHANGED <<phase, env, built, scan, probe, pool_lock, db, addr_pool, db_lock, db_poisoned, pkt, sent,
                   received, pool_hist>>

(* ------------------------------------------------------------------ *)
(* DISCOVER: offer_network_addr and choose_leased_ip_addr               *)
(* ------------------------------------------------------------------ *)
(* choose_leased_ip_addr returns Ok(ip): the guard of db_conn is dropped *)
Chosen(w, ip) == GotoWith(w, "offer_send", TRUE, ip) /\ Unlock

(* A choose_leased_ip_addr that takes the write guard of the pool before *)
(* the mutex of the store, and drops it once it has the mutex            *)
choose_lock_pool_first(w) ==
    /\ pc[w] = "offer_network_addr"
    /\ \/ /\ pool_lock # w
          /\ PoolWrite(w)
          /\ UNCHANGED workerVars
          /\ KeepLock
       \/ /\ PoolDrop(w)
          /\ Lock(w, "choose_tier1")
          /\ UNCHANGED pkt
    /\ UNCHANGED <<phase, env, built, scan, probe, db, addr_pool, sent, received, pool_hist>>

choose_lock(w) ==
    /\ pc[w] = "offer_network_addr"
    /\ Lock(w, "choose_tier1")
    /\ UNCHANGED <<phase, env, built, scan, probe, pool_lock, db, addr_pool, pkt, sent, received, pool_hist>>

(* The lease on record for the mac address; is_ip_addr_available answers *)
(* `avail`, and a failing query of the store ends the handling           *)
choose_tier1(w) ==
    /\ pc[w] = "choose_tier1"
    /\ LET used == find_addr(db, chaddr(Buf(w)))
       IN \E avail \in BOOLEAN, flt \in {"none", "store"} :
            IF flt = "store" THEN Ends(w, "err", "store") /\ Unlock
            ELSE IF used.some /\ contains(Server.network_addr, used.ip)
            THEN IF avail THEN Chosen(w, used.ip)
                 ELSE GotoBusy(w, "choose_tier2") /\ KeepLock
            ELSE Goto(w, "choose_tier2") /\ KeepLock
    /\ UNCHANGED <<phase, env, built, scan, probe, pool_lock, db, addr_pool, pkt, sent, received, pool_hist>>

(* The requested address, taken out of the pool by find_ip_addr *)
choose_tier2(w) ==
    /\ pc[w] = "choose_tier2"
    /\ LET r == requested_ip_addr(Buf(w))
           f == find_ip_addr(addr_pool, r.ip)
       IN IF r.panicked
          THEN Ends(w, "panic", "none") /\ UnlockPanicking /\ UNCHANGED addr_pool
          ELSE IF r.some
          THEN /\ addr_pool' = f.pool
               /\ \E avail \in BOOLEAN :
                    IF ~f.some THEN Goto(w, "choose_tier3") /\ KeepLock
                    ELSE IF avail THEN Chosen(w, f.ip)
                    ELSE GotoBusy(w, "choose_tier3") /\ KeepLock
          ELSE Goto(w, "choose_tier3") /\ KeepLock /\ UNCHANGED addr_pool
    /\ UNCHANGED <<phase, env, built, scan, probe, pool_lock, db, pkt, sent, received, pool_hist>>

(* A turn of the loop that records the lease with the candidate it returns *)
choose_tier3_recording(w) ==
    /\ pc[w] = "choose_tier3"
    /\ LET f == find_available_ip_addr(addr_pool)
       IN /\ addr_pool' = f.pool
          /\ IF ~f.some THEN Ends(w, "err", "none") /\ Unlock /\ UNCHANGED db
             ELSE \E avail \in BOOLEAN :
                    IF avail
                    THEN /\ Chosen(w, f.ip)
                         /\ db' = create_or_update(<<chaddr(Buf(w)), f.ip>>, db).rows
                    ELSE GotoBusy(w, "choose_tier3") /\ KeepLock /\ UNCHANGED db
    /\ UNCHANGED <<phase, env, built, scan, probe, pool_lock, pkt, sent, received, pool_hist>>

(* One turn of the while loop over find_available_ip_addr *)
choose_tier3(w) ==
    /\ pc[w] = "choose_tier3"
    /\ LET f == find_available_ip_addr(addr_pool)
       IN /\ addr_pool' = f.pool
          /\ IF ~f.some THEN Ends(w, "err", "none") /\ Unlock
             ELSE \E avail \in BOOLEAN :
                    IF avail THEN Chosen(w, f.ip)
                    ELSE GotoBusy(w, "choose_tier3") /\ KeepLock
    /\ UNCHANGED <<phase, env, built, scan, probe, pool_lock, db, pkt, sent, received, pool_hist>>

(* make_dhcp_packet(DHCPOFFER) and send_broadcast_response *)
offer_send(w) ==
    /\ pc[w] = "offer_send"
    /\ LET offer_packet == make_dhcp_packet(Server, Buf(w), DHCPOFFER, loc[w].ip)
       IN IF offer_packet.panicked
          THEN Ends(w, "panic", "none") /\ UNCHANGED sent
          ELSE \E flt \in {"none", "send"} :
                 IF flt = "send" THEN Ends(w, "err", "send") /\ UNCHANGED sent
                 ELSE Broadcast(w, offer_packet.buf) /\ Ends(w, "ok", "none")
    /\ UNCHANGED <<phase, env, built, scan, probe, pool_lock, db, addr_pool, db_lock, db_poisoned, pkt, received,
                   pool_hist>>

(* ------------------------------------------------------------------ *)
(* REQUEST with a server identifier: allocate_ip_addr                   *)
(* ------------------------------------------------------------------ *)
(* Up to the lock: the server identifier and the requested address *)
allocate_ip_addr(w) ==
    /\ pc[w] = "allocate_ip_addr"
    /\ LET svr_ip_addr == ipv4_addr_from(option(Buf(w), ServerIdentifier).data)
           offered_ip_addr == option(Buf(w), RequestedIpAddress)
           ip_addr_to_lease == ipv4_addr_from(offered_ip_addr.data)
       IN IF ~svr_ip_addr.some THEN Ends(w, "err", "none")
          ELSE IF svr_ip_addr.ip # Server.svr_addr THEN Ends(w, "ok", "none")
          ELSE IF offered_ip_addr.kind # "some" THEN Ends(w, "panic", "none")
          ELSE IF ~ip_addr_to_lease.some THEN Ends(w, "err", "none")
          ELSE GotoWith(w, "allocate_lock", TRUE, ip_addr_to_lease.ip)
    /\ UNCHANGED <<phase, env, built, scan, probe, pool_lock, db, addr_pool, db_lock, db_poisoned, pkt, sent, received,
                   pool_hist>>

allocate_lock(w) ==
    /\ pc[w] = "allocate_lock"
    /\ Lock(w, "allocate_tx")
    /\ UNCHANGED <<phase, env, built, scan, probe, pool_lock, db, addr_pool, pkt, sent, received, pool_hist>>

(* allocate_ip_addr committing the upsert as soon as it is made, before *)
(* the reply is built and sent                                          *)
allocate_tx_commit_first(w) ==
    /\ pc[w] = "allocate_tx"
    /\ LET transaction == create_or_update(<<chaddr(Buf(w)), loc[w].ip>>, db)
           ack_packet == make_dhcp_packet(Server, Buf(w), DHCPACK, loc[w].ip)
       IN IF ~transaction.ok
          THEN Ends(w, "err", "none") /\ Unlock /\ UNCHANGED <<db, sent>>
          ELSE /\ db' = transaction.rows
               /\ IF ack_packet.panicked
                  THEN Ends(w, "panic", "none") /\ UnlockPanicking /\ UNCHANGED sent
                  ELSE Broadcast(w, ack_packet.buf) /\ Unlock /\ Ends(w, "ok", "none")
    /\ UNCHANGED <<phase, env, built, scan, probe, pool_lock, addr_pool, pkt, received, pool_hist>>

(* The transaction: create_or_update, make_dhcp_packet(DHCPACK), the send, *)
(* the commit.  Dropping the transaction before the commit rolls it back.  *)
allocate_tx(w) ==
    /\ pc[w] = "allocate_tx"
    /\ LET transaction == create_or_update(<<chaddr(Buf(w)), loc[w].ip>>, db)
           ack_packet == make_dhcp_packet(Server, Buf(w), DHCPACK, loc[w].ip)
       IN \E flt \in {"none", "store", "send", "commit"} :
            IF flt = "store"
            THEN Ends(w, "err", "store") /\ Unlock /\ UNCHANGED <<db, sent>>
            ELSE IF ~transaction.ok
            THEN Ends(w, "err", "none") /\ Unlock /\ UNCHANGED <<db, sent>>
            ELSE IF ack_packet.panicked
            THEN Ends(w, "panic", "none") /\ UnlockPanicking /\ UNCHANGED <<db, sent>>
            ELSE IF flt = "send"
            THEN Ends(w, "err", "send") /\ Unlock /\ UNCHANGED <<db, sent>>
            ELSE /\ Broadcast(w, ack_packet.buf)
                 /\ Unlock
                 /\ IF flt = "commit"
                    THEN Ends(w, "err", "commit") /\ UNCHANGED db
                    ELSE Ends(w, "ok", "none") /\ db' = transaction.rows
    /\ UNCHANGED <<phase, env, built, scan, probe, pool_lock, addr_pool, pkt, received, pool_hist>>

(* ------------------------------------------------------------------ *)
(* REQUEST without a server identifier: reallocate_ip_addr              *)
(* ------------------------------------------------------------------ *)
reallocate_ip_addr(w) ==
    /\ pc[w] = "reallocate_ip_addr"
    /\ LET requested == option(Buf(w), RequestedIpAddress)
           requested_ip == ipv4_addr_from(requested.data)
       IN IF requested.kind = "panic" THEN Ends(w, "panic", "none")
          ELSE IF requested.kind = "some"
          THEN IF ~requested_ip.some THEN Ends(w, "err", "none")
               ELSE GotoWith(w, "reallocate_lookup", FALSE, requested_ip.ip)
          ELSE IF contains(Server.network_addr, ciaddr(Buf(w)))
          THEN GotoWith(w, "reallocate_send", TRUE, ciaddr(Buf(w)))
          ELSE Ends(w, "err", "none")
    /\ UNCHANGED <<phase, env, built, scan, probe, pool_lock, db, addr_pool, db_lock, db_poisoned, pkt, sent, received,
                   pool_hist>>

(* INIT-REBOOT: the lease on record, read under the lock of db_conn, which *)
(* is dropped at the end of the match arm                                  *)
reallocate_lookup(w) ==
    /\ pc[w] = "reallocate_lookup"
    /\ db_lock = 0
    /\ LET ip_addr == find_addr(db, chaddr(Buf(w)))
       IN IF db_poisoned THEN Ends(w, "panic", "none")
          ELSE \E flt \in {"none", "store"} :
                 IF flt = "store" THEN Ends(w, "err", "store")
                 ELSE IF ~ip_addr.some THEN Ends(w, "ok", "none")
                 ELSE GotoWith(w, "reallocate_send",
                               ip_addr.ip = loc[w].ip
                                   /\ contains(Server.network_addr, ip_addr.ip),
                               ip_addr.ip)
    /\ UNCHANGED <<phase, env, built, scan, probe, pool_lock, db, addr_pool, db_lock, db_poisoned, pkt, sent, received,
                   pool_hist>>

(* DHCPACK for Some(ip), DHCPNAK with 0.0.0.0 for None; after the send the *)
(* message type of the sent packet is read back for the log                *)
reallocate_send(w) ==
    /\ pc[w] = "reallocate_send"
    /\ LET snd_packet ==
               IF loc[w].some
               THEN make_dhcp_packet(Server, Buf(w), DHCPACK, loc[w].ip)
               ELSE make_dhcp_packet(Server, Buf(w), DHCPNAK, UNSPECIFIED)
           logged == option(snd_packet.buf, MessageType)
       IN IF snd_packet.panicked THEN Ends(w, "panic", "none") /\ UNCHANGED sent
          ELSE \E flt \in {"none", "send"} :
                 IF flt = "send" THEN Ends(w, "err", "send") /\ UNCHANGED sent
                 ELSE /\ Broadcast(w, snd_packet.buf)
                      /\ IF logged.kind = "some" /\ Len(logged.data) > 0
                         THEN Ends(w, "ok", "none")
                         ELSE Ends(w, "panic", "none")
    /\ UNCHANGED <<phase, env, built, scan, probe, pool_lock, db, addr_pool, db_lock, db_poisoned, pkt, received,
                   pool_hist>>

(* ------------------------------------------------------------------ *)
(* RELEASE: release_ip_addr                                             *)
(* ------------------------------------------------------------------ *)
release_lock(w) ==
    /\ pc[w] = "release_ip_addr"
    /\ Lock(w, "release_tx")
    /\ UNCHANGED <<phase, env, built, scan, probe, pool_lock, db, addr_pool, pkt, sent, received, pool_hist>>

(* The transaction of a release that returns the address to the pool    *)
(* before the soft-delete is attempted                                   *)
release_tx_pool_first(w) ==
    /\ pc[w] = "release_tx"
    /\ addr_pool' = insert_front(addr_pool, ciaddr(Buf(w)))
    /\ \E flt \in {"none", "store"} :
         IF flt = "store" THEN Ends(w, "err", "store") /\ Unlock /\ UNCHANGED db
         ELSE /\ db' = destroy(chaddr(Buf(w)), db).rows
              /\ Goto(w, "release_pool")
              /\ KeepLock
    /\ UNCHANGED <<phase, env, built, scan, probe, pool_lock, pkt, sent, received, pool_hist>>

(* conn.transaction(), repository::destroy, transaction.commit() *)
release_tx(w) ==
    /\ pc[w] = "release_tx"
    /\ \E flt \in {"none", "store"} :
         IF flt = "store" THEN Ends(w, "err", "store") /\ Unlock /\ UNCHANGED db
         ELSE /\ db' = destroy(chaddr(Buf(w)), db).rows
              /\ Goto(w, "release_pool")
              /\ KeepLock
    /\ UNCHANGED <<phase, env, built, scan, probe, pool_lock, addr_pool, pkt, sent, received, pool_hist>>

(* self.addr_pool.write().unwrap() and lock.insert(0, ciaddr) *)
release_pool(w) ==
    /\ pc[w] = "release_pool"
    /\ addr_pool' = insert_front(addr_pool, ciaddr(Buf(w)))
    /\ Unlock
    /\ Ends(w, "ok", "none")
    /\ UNCHANGED <<phase, env, built, scan, probe, pool_lock, db, pkt, sent, received, pool_hist>>

(* ------------------------------------------------------------------ *)
(* The server                                                           *)
(* ------------------------------------------------------------------ *)
Next ==
    \/ Startup
    \/ \E w \in Workers :
        \/ main_recv(w)
        \/ handle_dhcp(w)
        \/ choose_lock(w)
        \/ choose_tier1(w)
        \/ choose_tier2(w)
        \/ choose_tier3(w)
        \/ offer_send(w)
        \/ allocate_ip_addr(w)
        \/ allocate_lock(w)
        \/ allocate_tx(w)
        \/ reallocate_ip_addr(w)
        \/ reallocate_lookup(w)
        \/ reallocate_send(w)
        \/ release_lock(w)
        \/ release_tx(w)
        \/ release_pool(w)

Spec == Init /\ [][Next]_vars

(* ------------------------------------------------------------------ *)
(* The startup alone, over every configuration and stored content       *)
(* ------------------------------------------------------------------ *)
SpecStartup == InitWide /\ [][Startup]_vars

(* ------------------------------------------------------------------ *)
(* The pool alone: any sequence of calls of its three operations        *)
(* (take_next: find_available_ip_addr, take_specific: find_ip_addr,     *)
(* give_back: the insert of release_ip_addr) from the startup pool      *)
(* ------------------------------------------------------------------ *)
TakeArgs == {Host(3), Host(12), OtherNet(4)}
GiveArgs == {Host(2), OtherNet(9)}

InitPool ==
    /\ env \in Environments
    /\ db \in InitialStores
    /\ InitCommon

Called(name, arg, some, ip) ==
    [pool_hist EXCEPT !.n = @ + 1, !.op = name, !.arg = arg, !.before = addr_pool,
                      !.some = some, !.ip = ip]

take_next ==
    /\ phase = "serving"
    /\ pool_hist.n < MaxPoolOps
    /\ LET f == find_available_ip_addr(addr_pool)
       IN /\ addr_pool' = f.pool
          /\ pool_hist' = [Called("take_next", UNSPECIFIED, f.some, f.ip) EXCEPT
                              !.last_some = f.some, !.last_ip = f.ip,
                              !.prev_some = pool_hist.last_some,
                              !.prev_ip = pool_hist.last_ip]
    /\ UNCHANGED <<phase, env, built, scan, probe, pool_lock, db, db_lock, db_poisoned, workerVars, sent, received>>

take_specific(a) ==
    /\ phase = "serving"
    /\ pool_hist.n < MaxPoolOps
    /\ LET f == find_ip_addr(addr_pool, a)
       IN /\ addr_pool' = f.pool
          /\ pool_hist' = Called("take_specific", a, f.some, f.ip)
    /\ UNCHANGED <<phase, env, built, scan, probe, pool_lock, db, db_lock, db_poisoned, workerVars, sent, received>>

give_back(a) ==
    /\ phase = "serving"
    /\ pool_hist.n < MaxPoolOps
    /\ addr_pool' = insert_front(addr_pool, a)
    /\ pool_hist' = [Called("give_back", a, FALSE, UNSPECIFIED) EXCEPT !.gave_back = TRUE]
    /\ UNCHANGED <<phase, env, built, scan, probe, pool_lock, db, db_lock, db_poisoned, workerVars, sent, received>>

NextPool ==
    \/ Startup
    \/ take_next
    \/ \E a \in TakeArgs : take_specific(a)
    \/ \E a \in GiveArgs : give_back(a)

SpecPool == InitPool /\ [][NextPool]_vars

(* ------------------------------------------------------------------ *)
(* Properties                                                           *)
(* ------------------------------------------------------------------ *)
PoolSet == SeqToSet(addr_pool)

ActiveRows == {i \in 1..Len(db) : db[i].deleted = 0}

(* The addresses of the configured subnet, by arithmetic on the prefix *)
SubnetAddrs(e) ==
    LET net == prefixed_network_addr_of(e)
        base == u32_from(net.addr) - (u32_from(net.addr) % HostSize(net))
    IN {Ipv4Addr_from_u32(base + k) : k \in 0..(HostSize(net) - 1)}

NetworkAddr(e) ==
    CHOOSE a \in SubnetAddrs(e) : \A b \in SubnetAddrs(e) : u32_from(a) <= u32_from(b)

BroadcastAddr(e) ==
    CHOOSE a \in SubnetAddrs(e) : \A b \in SubnetAddrs(e) : u32_from(b) <= u32_from(a)

ReservedAddrs(e) ==
    {NetworkAddr(e), BroadcastAddr(e), e.default_gateway, e.dhcp_svr_addr, e.dns_svr_addr}

(* C1: in every reachable state the address pool contains no address     *)
(* held by a non-deleted record of the lease store.                      *)
C1_PoolHoldsNoActiveLease ==
    \A i \in ActiveRows : parse(db[i].ip_addr) \notin PoolSet

(* C2: in every reachable state no address appears twice in the pool.    *)
C2_PoolHasNoDuplicates ==
    \A i, j \in 1..Len(addr_pool) : addr_pool[i] = addr_pool[j] => i = j

(* C3: in every reachable state every member of the pool lies inside the *)
(* configured subnet and is none of the network, broadcast, gateway,     *)
(* server and DNS addresses.                                             *)
C3_PoolInsideSubnet ==
    PoolSet \subseteq (SubnetAddrs(env) \ ReservedAddrs(env))

(* C4: the pool built at startup holds exactly the addresses of the      *)
(* subnet that are not the network address, the broadcast address, the   *)
(* gateway, the server, the DNS server or the address of a non-deleted   *)
(* record; each of them once. Addresses of deleted records stay in.      *)
C4_StartupPoolExact ==
    phase = "serving" =>
        /\ PoolSet = (SubnetAddrs(env) \ ReservedAddrs(env))
                        \ {parse(db[i].ip_addr) : i \in ActiveRows}
        /\ Cardinality(PoolSet) = Len(addr_pool)

(* C4, its case: a store with an active and a deleted record, both of    *)
(* addresses of the subnet that are not reserved; the deleted one's      *)
(* address is in the startup pool and the active one's is not.           *)
C4_Witness ==
    /\ phase = "serving"
    /\ \E i, j \in 1..Len(db) :
          /\ db[i].deleted = 0
          /\ db[j].deleted = 1
          /\ {parse(db[i].ip_addr), parse(db[j].ip_addr)}
                \subseteq (SubnetAddrs(env) \ ReservedAddrs(env))
          /\ parse(db[i].ip_addr) \notin PoolSet
          /\ parse(db[j].ip_addr) \in PoolSet

(* C5: from the startup pool, with no give_back so far (take_specific    *)
(* calls may have happened), a take_next on a non-empty pool returns the *)
(* smallest address that was in the pool, which is greater than the one  *)
(* the previous take_next returned; on an empty pool it returns none.    *)
C5_TakeNextAscending ==
    (pool_hist.op = "take_next" /\ ~pool_hist.gave_back) =>
        IF pool_hist.before = <<>>
        THEN ~pool_hist.some
        ELSE /\ pool_hist.some
             /\ pool_hist.ip \in SeqToSet(pool_hist.before)
             /\ \A a \in SeqToSet(pool_hist.before) :
                    u32_from(pool_hist.ip) <= u32_from(a)
             /\ pool_hist.prev_some => u32_from(pool_hist.prev_ip) < u32_from(pool_hist.ip)
             /\ pool_hist.ip \notin PoolSet

(* C5, its case: a take_specific removed an address, then a second       *)
(* take_next returned an address, and the pool is now empty.             *)
C5_Witness ==
    /\ pool_hist.op = "take_next"
    /\ ~pool_hist.gave_back
    /\ pool_hist.n = 3
    /\ pool_hist.prev_some
    /\ pool_hist.some
    /\ addr_pool = <<>>

(* ------------------------------------------------------------------ *)
(* Properties of the handling of one datagram. They are stated on the   *)
(* step that ends the worker's thread: the unprimed variables are the   *)
(* state before it, the primed ones the state the handling leaves.      *)
(* ------------------------------------------------------------------ *)
Msg(w) == Messages[pkt[w]]

Handling(w) == pc[w] \notin {"idle", "done"}

Finishes(w) == Handling(w) /\ pc'[w] = "done"

(* The replies broadcast for datagram n, as positions of s *)
RepliesTo(n, s) == {i \in 1..Len(s) : s[i].n = n}

(* A reply read as a client reads it: the fixed fields, and the options *)
(* as a sequence of TLVs after the cookie (Pad 0 is one byte, End 255   *)
(* stops the walk)                                                      *)
RECURSIVE tlv_walk(_, _, _)
tlv_walk(opts, i, code) ==
    IF i + 1 > Len(opts) \/ opts[i + 1] = 255 THEN <<>>
    ELSE IF opts[i + 1] = 0 THEN tlv_walk(opts, i + 1, code)
    ELSE IF i + 2 > Len(opts) THEN <<>>
    ELSE IF opts[i + 1] = code THEN SubSeq(opts, i + 3, i + 2 + opts[i + 2])
    ELSE tlv_walk(opts, i + 2 + opts[i + 2], code)

ReplyType(buf) == tlv_walk(SubSeq(buf, OPTIONS + 5, Len(buf)), 0, 53)

ReplyYiaddr(buf) == SubSeq(buf, YIADDR + 1, SIADDR)

ReplyXid(buf) == SubSeq(buf, XID + 1, SECS)

IsReply(r, type, ip) == ReplyType(r.buf) = <<type>> /\ ReplyYiaddr(r.buf) = ip

(* The lowest address of the subnet that is not reserved *)
LowestFree(e) ==
    CHOOSE a \in SubnetAddrs(e) \ ReservedAddrs(e) :
        \A b \in SubnetAddrs(e) \ ReservedAddrs(e) : u32_from(a) <= u32_from(b)

RowsFor(store, mac) == {j \in 1..Len(store) : store[j].mac_addr = mac}

(* C6: with an empty store and the startup pool (the datagram is the     *)
(* first one read), a DISCOVER without requested-address option whose    *)
(* probes all pass and whose send succeeds ends with exactly one reply   *)
(* broadcast: an OFFER whose yiaddr is the lowest address of the subnet  *)
(* that is not reserved and whose xid is the request's.                  *)
C6_FirstDiscoverOffered ==
    [][\A w \in Workers :
        ( /\ Finishes(w)
          /\ Msg(w).type = DHCPDISCOVER
          /\ Msg(w).req = <<>>
          /\ db = <<>>
          /\ received = 1
          /\ ~loc[w].probed_busy
          /\ fault'[w] = "none" )
        => /\ Len(sent') = 1
           /\ IsReply(sent'[1], DHCPOFFER, LowestFree(env))
           /\ ReplyXid(sent'[1].buf) = xid(Buf(w))]_vars

(* C7: a REQUEST from m whose server identifier is this server's address *)
(* and whose requested address is a, with store and send succeeding,     *)
(* ends with an ACK with yiaddr = a broadcast and with a non-deleted     *)
(* record (m, a) in the store, whatever record of m was there before.    *)
C7_SelectingRequestAcked ==
    [][\A w \in Workers :
        ( /\ Finishes(w)
          /\ Msg(w).type = DHCPREQUEST
          /\ Msg(w).svr = env.dhcp_svr_addr
          /\ Msg(w).req # <<>>
          /\ fault'[w] = "none" )
        => /\ \E i \in RepliesTo(loc[w].n, sent') : IsReply(sent'[i], DHCPACK, Msg(w).req)
           /\ \E j \in RowsFor(db', Msg(w).mac) :
                  parse(db'[j].ip_addr) = Msg(w).req /\ db'[j].deleted = 0]_vars

(* C8: every step of the handling of a REQUEST whose server identifier   *)
(* is not this server's address sends nothing and leaves the store and   *)
(* the pool as they are, and the handling ends with Ok.                  *)
C8_ForeignRequestIgnored ==
    [][\A w \in Workers :
        ( /\ Handling(w)
          /\ pc'[w] # pc[w]
          /\ Msg(w).type = DHCPREQUEST
          /\ Msg(w).svr # <<>>
          /\ Msg(w).svr # env.dhcp_svr_addr )
        => /\ sent' = sent
           /\ db' = db
           /\ addr_pool' = addr_pool
           /\ pc'[w] = "done" => outcome'[w] = "ok"]_vars

(* C9: a RELEASE from m with ciaddr = a, m holding the non-deleted       *)
(* record (m, a) when the handling comes to the store (at the last step, *)
(* release_pool, the UPDATE of this handling has already run), the store *)
(* succeeding, ends with the record's deleted flag set, with a in the    *)
(* pool, and with no reply sent for it.                                  *)
C9_ReleaseFreesLease ==
    [][\A w \in Workers :
        ( /\ Finishes(w)
          /\ Msg(w).type = DHCPRELEASE
          /\ \E j \in RowsFor(db, Msg(w).mac) :
                /\ parse(db[j].ip_addr) = Msg(w).ciaddr
                /\ db[j].deleted = 0 \/ pc[w] = "release_pool"
          /\ fault'[w] = "none" )
        => /\ \A j \in RowsFor(db', Msg(w).mac) : db'[j].deleted = 1
           /\ Msg(w).ciaddr \in SeqToSet(addr_pool')
           /\ find_ip_addr(addr_pool', Msg(w).ciaddr).some
           /\ RepliesTo(loc[w].n, sent') = {}]_vars

(* C10: a REQUEST from m without server identifier and with requested    *)
(* address r, store and send succeeding: with no record of m nothing is  *)
(* sent; with a record (m, a), a = r and a inside the subnet, the reply  *)
(* is an ACK with yiaddr = a; with any other record the reply is a NAK   *)
(* with yiaddr = 0.0.0.0.                                                *)
C10_InitRebootAnswered ==
    [][\A w \in Workers :
        ( /\ Finishes(w)
          /\ Msg(w).type = DHCPREQUEST
          /\ Msg(w).svr = <<>>
          /\ Msg(w).req # <<>>
          /\ fault'[w] = "none" )
        => LET rows == RowsFor(db, Msg(w).mac)
               replies == RepliesTo(loc[w].n, sent')
           IN IF rows = {} THEN replies = {}
              ELSE /\ Cardinality(replies) = 1
                   /\ \A i \in replies : \A j \in rows :
                        LET a == parse(db[j].ip_addr)
                        IN IF a = Msg(w).req /\ a \in SubnetAddrs(env)
                           THEN IsReply(sent'[i], DHCPACK, a)
                           ELSE IsReply(sent'[i], DHCPNAK, UNSPECIFIED)]_vars

(* C11: a REQUEST without server identifier and without requested       *)
(* address (RENEWING/REBINDING), store and send succeeding: no step of   *)
(* its handling changes the pool or the store; with ciaddr inside the    *)
(* subnet it ends with one reply, an ACK with yiaddr = ciaddr; with      *)
(* ciaddr outside it ends with an error and no reply.                    *)
C11_RenewingAnswered ==
    [][\A w \in Workers :
        ( /\ Handling(w)
          /\ pc'[w] # pc[w]
          /\ Msg(w).type = DHCPREQUEST
          /\ Msg(w).svr = <<>>
          /\ Msg(w).req = <<>> )
        => /\ db' = db
           /\ addr_pool' = addr_pool
           /\ (pc'[w] = "done" /\ fault'[w] = "none") =>
                LET replies == RepliesTo(loc[w].n, sent')
                IN IF Msg(w).ciaddr \in SubnetAddrs(env)
                   THEN /\ Cardinality(replies) = 1
                        /\ \A i \in replies : IsReply(sent'[i], DHCPACK, Msg(w).ciaddr)
                   ELSE outcome'[w] = "err" /\ replies = {}]_vars

(* ------------------------------------------------------------------ *)
(* The main loop alone, on datagrams around the minimum size            *)
(* ------------------------------------------------------------------ *)
NextParse ==
    \/ Startup
    \/ \E w \in Workers :
        \/ main_recv_of(w, Boundary \cup {2, 13})
        \/ handle_dhcp(w)

SpecParse == Init /\ [][NextParse]_vars

(* The slot the next spawned thread takes *)
NextSlot ==
    CHOOSE w \in Workers :
        /\ pc[w] \in {"idle", "done"}
        /\ \A v \in Workers : v < w => pc[v] \notin {"idle", "done"}

(* C12: a datagram shorter than 237 bytes is rejected: its thread ends   *)
(* at once and nothing is sent; a datagram of 237 bytes or more is       *)
(* accepted: when it is a BOOTREQUEST it goes on to handle_dhcp.         *)
C12_ParseAcceptsFrom237 ==
    [][received' = received + 1 =>
        LET w == NextSlot
            m == Messages[pkt'[w]]
        IN IF m.size < 237
           THEN pc'[w] = "done" /\ outcome'[w] = "dropped" /\ sent' = sent
           ELSE m.opcode = BOOTREQUEST => pc'[w] = "handle_dhcp"]_vars

(* ------------------------------------------------------------------ *)
(* make_dhcp_packet alone: worker 1 builds the reply of type loc.reply  *)
(* to a request, for the address loc.ip, and sends it                   *)
(* ------------------------------------------------------------------ *)
ReplyTypes == {DHCPOFFER, DHCPACK, DHCPNAK}

InitReply ==
    /\ env \in Environments
    /\ db = <<>>
    /\ phase = "serving"
    /\ addr_pool = init_addr_pool(db, env, prefixed_network_addr_of(env))
    /\ db_lock = 0
    /\ db_poisoned = FALSE
    /\ pc = [w \in Workers |-> IF w = 1 THEN "build" ELSE "idle"]
    /\ \E i \in Requests : pkt = [w \in Workers |-> IF w = 1 THEN i ELSE 0]
    /\ \E t \in ReplyTypes, a \in {Host(2), OtherNet(3), UNSPECIFIED} :
          loc = [w \in Workers |->
                    IF w = 1 THEN [NoLoc EXCEPT !.n = 1, !.ip = a, !.reply = t]
                    ELSE NoLoc]
    /\ outcome = [w \in Workers |-> "none"]
    /\ fault = [w \in Workers |-> "none"]
    /\ sent = <<>>
    /\ received = 1
    /\ pool_hist = NoHist
    /\ pool_lock = 0
    /\ probe = NoProbe
    /\ scan = NoScan
    /\ built = NoBuilt

build_reply(w) ==
    /\ pc[w] = "build"
    /\ pc' = [pc EXCEPT ![w] = "done"]
    /\ LET packet == make_dhcp_packet(Server, Buf(w), loc[w].reply, loc[w].ip)
       IN IF packet.panicked
          THEN outcome' = [outcome EXCEPT ![w] = "panic"] /\ UNCHANGED sent
          ELSE outcome' = [outcome EXCEPT ![w] = "ok"] /\ Broadcast(w, packet.buf)
    /\ UNCHANGED <<phase, env, built, scan, probe, pool_lock, db, addr_pool, db_lock, db_poisoned, pkt, loc, fault,
                   received, pool_hist>>

NextReply == \E w \in Workers : build_reply(w)

SpecReply == InitReply /\ [][NextReply]_vars

(* C13: once the reply is built, reading it back gives what was written: *)
(* op BOOTREPLY, the request's xid, flags, giaddr and chaddr, the        *)
(* request's ciaddr in an ACK, yiaddr the address to lease, and through  *)
(* option(code) the message type, the lease time, the server identifier, *)
(* the subnet mask, the router and the DNS server.                       *)
C13_ReplyRoundTrip ==
    \A w \in Workers :
        pc[w] = "done" =>
            /\ outcome[w] = "ok"
            /\ \E i \in RepliesTo(loc[w].n, sent) :
                 LET b == sent[i].buf
                     request == Buf(w)
                 IN /\ op(b) = BOOTREPLY
                    /\ xid(b) = xid(request)
                    /\ flags(b) = flags(request)
                    /\ loc[w].reply = DHCPACK => ciaddr(b) = ciaddr(request)
                    /\ ReplyYiaddr(b) = loc[w].ip
                    /\ giaddr(b) = giaddr(request)
                    /\ chaddr(b) = chaddr(request)
                    /\ option(b, MessageType) = OptSome(<<loc[w].reply>>)
                    /\ option(b, IpAddressLeaseTime) = OptSome(Server.lease_time)
                    /\ option(b, ServerIdentifier) = OptSome(Server.svr_addr)
                    /\ option(b, SubnetMask) = OptSome(Server.subnet_mask)
                    /\ option(b, Router) = OptSome(Server.default_gateway)
                    /\ option(b, Dns) = OptSome(Server.dns_svr)

(* ------------------------------------------------------------------ *)
(* DISCOVER and RELEASE messages only: no REQUEST is handled            *)
(* ------------------------------------------------------------------ *)
DiscoverOrRelease ==
    {i \in Requests : Messages[i].type \in {DHCPDISCOVER, DHCPRELEASE}}

NextDiscover ==
    \/ Startup
    \/ \E w \in Workers :
        \/ main_recv_of(w, DiscoverOrRelease)
        \/ handle_dhcp(w)
        \/ choose_lock(w)
        \/ choose_tier1(w)
        \/ choose_tier2(w)
        \/ choose_tier3(w)
        \/ offer_send(w)
        \/ release_lock(w)
        \/ release_tx(w)
        \/ release_pool(w)

SpecDiscover == Init /\ [][NextDiscover]_vars

(* The addresses of the non-deleted records of mac that lie in the subnet *)
ActiveInSubnet(mac) ==
    {parse(db[j].ip_addr) : j \in {k \in RowsFor(db, mac) : db[k].deleted = 0}}
        \cap SubnetAddrs(env)

(* C14: a DISCOVER from a mac with a lease on record, the recorded       *)
(* address inside the subnet and passing the probe, resolves to the      *)
(* recorded address and leaves the pool as it is, and so does every      *)
(* other DISCOVER of that mac: all have the same candidate.              *)
C14_RepeatedDiscoverSameCandidate ==
    [][\A w \in Workers :
        /\ ( /\ pc[w] = "choose_tier1"
             /\ pc'[w] # "choose_tier1"
             /\ Msg(w).type = DHCPDISCOVER
             /\ ActiveInSubnet(Msg(w).mac) # {}
             /\ fault'[w] = "none"
             /\ ~loc'[w].probed_busy )
           => /\ pc'[w] = "offer_send"
              /\ loc'[w].ip \in ActiveInSubnet(Msg(w).mac)
              /\ addr_pool' = addr_pool
              /\ \A v \in Workers \ {w} :
                    ( /\ pc[v] = "offer_send"
                      /\ Msg(v).type = DHCPDISCOVER
                      /\ Msg(v).mac = Msg(w).mac
                      /\ ~loc[v].probed_busy )
                    => loc[v].ip = loc'[w].ip
        /\ ( /\ pc[w] \in {"offer_network_addr", "offer_send"}
             /\ pc'[w] # pc[w] )
           => addr_pool' = addr_pool]_vars

(* C14, its case: two DISCOVERs of one mac with a lease on record have   *)
(* both been resolved, without a failed probe, to the recorded address.  *)
C14_Witness ==
    \E w, v \in Workers :
        /\ w # v
        /\ pc[w] = "offer_send" /\ pc[v] = "offer_send"
        /\ Msg(w).mac = Msg(v).mac
        /\ ~loc[w].probed_busy /\ ~loc[v].probed_busy
        /\ loc[w].ip = loc[v].ip
        /\ loc[w].ip \in ActiveInSubnet(Msg(w).mac)

(* The places where a thread takes the lock of db_conn *)
LockPoints == {"offer_network_addr", "allocate_lock", "reallocate_lookup", "release_ip_addr"}

(* C15: whatever failed in other threads, a thread that comes to take    *)
(* the lock of the store gets it: taking the lock never ends the thread  *)
(* with a panic, and the lock is never left poisoned.                    *)
C15_FailureIsolated ==
    [][/\ ~db_poisoned'
       /\ \A w \in Workers :
            (pc[w] \in LockPoints /\ pc'[w] = "done") => outcome'[w] # "panic"]_vars

(* ------------------------------------------------------------------ *)
(* REQUESTs with a server identifier and RELEASEs only                  *)
(* ------------------------------------------------------------------ *)
SelectingOrRelease ==
    {i \in Requests :
        \/ Messages[i].type = DHCPRELEASE
        \/ Messages[i].type = DHCPREQUEST /\ Messages[i].svr # <<>>}

NextLease ==
    \/ Startup
    \/ \E w \in Workers :
        \/ main_recv_of(w, SelectingOrRelease)
        \/ handle_dhcp(w)
        \/ allocate_ip_addr(w)
        \/ allocate_lock(w)
        \/ allocate_tx(w)
        \/ release_lock(w)
        \/ release_tx(w)
        \/ release_pool(w)

SpecLease == Init /\ [][NextLease]_vars

(* C16: when the transaction of allocate_ip_addr ends, an ACK has been   *)
(* sent only if the upsert succeeded (none after a failed upsert), the   *)
(* store has changed only if the ACK was sent, and after a failed send   *)
(* the store is as it was.                                               *)
C16_UpsertAndAckOneUnit ==
    [][\A w \in Workers :
        (pc[w] = "allocate_tx" /\ pc'[w] = "done") =>
            LET upsert == create_or_update(<<Msg(w).mac, Msg(w).req>>, db)
                acks == {i \in RepliesTo(loc[w].n, sent') : ReplyType(sent'[i].buf) = <<DHCPACK>>}
            IN /\ RepliesTo(loc[w].n, sent') = acks
               /\ (~upsert.ok \/ fault'[w] = "store") => acks = {}
               /\ acks # {} => upsert.ok
               /\ db' # db => (acks # {} /\ db' = upsert.rows)
               /\ fault'[w] = "send" => (db' = db /\ acks = {})]_vars

(* C16, its case: the transaction of a REQUEST for this server that      *)
(* would have changed the record of its mac has ended on a failure of    *)
(* the store, with nothing sent and the store as it was.                 *)
C16_Witness ==
    \E w \in Workers :
        /\ pc[w] = "done"
        /\ Msg(w).type = DHCPREQUEST
        /\ Msg(w).svr = env.dhcp_svr_addr
        /\ outcome[w] = "err"
        /\ fault[w] = "store"
        /\ sent = <<>>
        /\ \E j \in RowsFor(db, Msg(w).mac) :
              parse(db[j].ip_addr) # Msg(w).req

(* No record of mac, or only records with the deleted flag set *)
NoActiveLease(store, mac) == \A j \in RowsFor(store, mac) : store[j].deleted = 1

(* C17: find_addr finds an address only for a mac with a non-deleted     *)
(* record. For a mac without one (its record soft-deleted by a RELEASE), *)
(* a DISCOVER passes tier 1 without candidate and without probe, and an  *)
(* INIT-REBOOT REQUEST ends with Ok and no reply.                        *)
C17_FindByMacSkipsDeleted ==
    [][/\ \A mac \in {Mac(1), Mac(2)} :
            find_addr(db', mac).some => ~NoActiveLease(db', mac)
       /\ \A w \in Workers :
            ( /\ Handling(w)
              /\ pc'[w] # pc[w]
              /\ NoActiveLease(db, Msg(w).mac)
              /\ fault'[w] = "none" )
            => /\ pc[w] = "choose_tier1" =>
                    (pc'[w] = "choose_tier2" /\ ~loc'[w].probed_busy)
               /\ (pc[w] = "reallocate_lookup" /\ ~db_poisoned) =>
                    (pc'[w] = "done" /\ outcome'[w] = "ok" /\ sent' = sent)]_vars

OneRowPerMac(store) ==
    \A i, j \in 1..Len(store) : store[i].mac_addr = store[j].mac_addr => i = j

MacsOf(store) == {store[j].mac_addr : j \in 1..Len(store)}

(* C18: the store holds at most one record per mac address, also inside  *)
(* the transaction of a REQUEST once the upsert is made, and a step      *)
(* never takes the record of a mac address away.                         *)
C18_OneRecordPerMac ==
    [][/\ OneRowPerMac(db')
       /\ MacsOf(db) \subseteq MacsOf(db')
       /\ \A w \in Workers :
            pc[w] = "allocate_tx" =>
                OneRowPerMac(create_or_update(<<chaddr(Buf(w)), loc[w].ip>>, db).rows)]_vars

(* C18, its case: a RELEASE has soft-deleted the record of a mac while   *)
(* the transaction of a REQUEST of that mac for another address waits    *)
(* for the lock; the record is still there.                              *)
C18_Witness ==
    \E w \in Workers :
        /\ pc[w] = "allocate_lock"
        /\ \E j \in RowsFor(db, Msg(w).mac) :
              db[j].deleted = 1 /\ parse(db[j].ip_addr) # Msg(w).req

(* The addresses of the records of mac that lie in the subnet *)
RecordedInSubnet(mac) ==
    {parse(db[j].ip_addr) : j \in RowsFor(db, mac)} \cap SubnetAddrs(env)

ChooseSteps == {"choose_tier1", "choose_tier2", "choose_tier3"}

(* C19: the steps of choose_leased_ip_addr for a DISCOVER, the store     *)
(* answering. Tier 1 returns the recorded address, inside the subnet;    *)
(* it is left for tier 2 only without such a record or after a failed    *)
(* probe. Tier 2 returns the requested address, taken out of the pool;   *)
(* it is left for tier 3 only without the option, with the address not   *)
(* in the pool, or after a failed probe. Tier 3 returns the address it   *)
(* popped. The handling fails only in tier 3 on an empty pool, with an   *)
(* error and nothing sent.                                               *)
C19_ThreeTierPriority ==
    [][\A w \in Workers :
        ( /\ pc[w] \in ChooseSteps
          /\ pc'[w] # pc[w]
          /\ Msg(w).type = DHCPDISCOVER
          /\ fault'[w] = "none" )
        => /\ pc'[w] = "done" =>
                /\ pc[w] = "choose_tier3"
                /\ addr_pool = <<>>
                /\ outcome'[w] = "err"
                /\ sent' = sent
           /\ (pc[w] = "choose_tier1" /\ pc'[w] = "offer_send") =>
                loc'[w].ip \in RecordedInSubnet(Msg(w).mac)
           /\ (pc[w] = "choose_tier1" /\ pc'[w] = "choose_tier2") =>
                (RecordedInSubnet(Msg(w).mac) = {} \/ loc'[w].probed_busy)
           /\ (pc[w] = "choose_tier2" /\ pc'[w] = "offer_send") =>
                /\ loc'[w].ip = Msg(w).req
                /\ Msg(w).req \in PoolSet
                /\ Len(addr_pool') = Len(addr_pool) - 1
           /\ (pc[w] = "choose_tier2" /\ pc'[w] = "choose_tier3") =>
                \/ Msg(w).req = <<>>
                \/ Msg(w).req \notin PoolSet
                \/ loc'[w].probed_busy
           /\ (pc[w] = "choose_tier3" /\ pc'[w] = "offer_send") =>
                /\ addr_pool # <<>>
                /\ loc'[w].ip = addr_pool[Len(addr_pool)]
                /\ addr_pool' = SubSeq(addr_pool, 1, Len(addr_pool) - 1)]_vars

(* Worker w takes a step of the handling of a DISCOVER *)
DiscoverStep(w) ==
    /\ Handling(w)
    /\ Msg(w).type = DHCPDISCOVER
    /\ \/ pc'[w] # pc[w]
       \/ pc[w] = "choose_tier3" /\ addr_pool' # addr_pool

(* C20: no step of the handling of a DISCOVER, from the dispatch to its *)
(* end in an OFFER or in a failure, changes the lease store: no row is  *)
(* added, rewritten or soft-deleted.                                    *)
C20_DiscoverLeavesStore ==
    [][\A w \in Workers : DiscoverStep(w) => db' = db]_vars

(* C20: with leases on record, a DISCOVER was handled to its end: a     *)
(* candidate was chosen and the thread ended building the OFFER (the    *)
(* only panic of a padded DISCOVER while the mutex is not poisoned)     *)
C20_Witness ==
    \E w \in Workers :
        /\ pc[w] = "done"
        /\ Msg(w).type = DHCPDISCOVER
        /\ Msg(w).layout = "padded"
        /\ outcome[w] = "panic"
        /\ ~db_poisoned
        /\ db # <<>>

(* Worker w takes a step of the handling of a RELEASE *)
ReleaseStep(w) ==
    /\ Handling(w)
    /\ Msg(w).type = DHCPRELEASE
    /\ pc'[w] # pc[w]

(* C21: in the handling of a RELEASE the pool changes in one step only,  *)
(* the insert of the client-IP at the front, taken when the soft-delete  *)
(* is committed (every record of the mac is flagged in the store); a     *)
(* failing soft-delete or commit ends the handling with an error, the    *)
(* pool and the store as they were.                                      *)
C21_ReleasePoolAfterCommit ==
    [][\A w \in Workers : ReleaseStep(w) =>
        /\ addr_pool' # addr_pool =>
              /\ pc[w] = "release_pool"
              /\ NoActiveLease(db, Msg(w).mac)
              /\ db' = db
              /\ addr_pool' = <<Msg(w).ciaddr>> \o addr_pool
        /\ pc[w] = "release_pool" =>
              /\ addr_pool' = <<Msg(w).ciaddr>> \o addr_pool
              /\ outcome'[w] = "ok"
        /\ (pc[w] = "release_tx" /\ pc'[w] = "done") =>
              /\ outcome'[w] = "err"
              /\ fault'[w] = "store"
              /\ addr_pool' = addr_pool
              /\ db' = db
        /\ (pc[w] = "release_tx" /\ pc'[w] # "done") =>
              /\ pc'[w] = "release_pool"
              /\ NoActiveLease(db', Msg(w).mac)
              /\ addr_pool' = addr_pool]_vars

(* C21: a RELEASE of a mac with a lease on record has been handled to    *)
(* its end, its address at the front of the pool and its record flagged, *)
(* while another RELEASE ended with an error of the store                *)
C21_Witness ==
    \E w, v \in Workers :
        /\ pc[w] = "done" /\ outcome[w] = "ok"
        /\ Msg(w).type = DHCPRELEASE
        /\ RowsFor(db, Msg(w).mac) # {}
        /\ NoActiveLease(db, Msg(w).mac)
        /\ addr_pool # <<>> /\ addr_pool[1] = Msg(w).ciaddr
        /\ pc[v] = "done" /\ outcome[v] = "err" /\ fault[v] = "store"
        /\ Msg(v).type = DHCPRELEASE

(* ------------------------------------------------------------------ *)
(* The two locks, step by step: every write() on addr_pool is a step of *)
(* its own, which waits while another thread holds the guard; the       *)
(* guard is dropped when find_ip_addr, find_available_ip_addr or        *)
(* release_ip_addr returns                                              *)
(* ------------------------------------------------------------------ *)
(* requested_ip_addr(): Some(addr) leads to find_ip_addr(addr) *)
choose_tier2_lookup(w) ==
    /\ pc[w] = "choose_tier2"
    /\ LET r == requested_ip_addr(Buf(w))
       IN IF r.panicked THEN Ends(w, "panic", "none") /\ UnlockPanicking
          ELSE IF r.some THEN GotoWith(w, "find_ip_addr", FALSE, r.ip) /\ KeepLock
          ELSE Goto(w, "choose_tier3") /\ KeepLock
    /\ UNCHANGED <<phase, env, built, scan, probe, pool_lock, db, addr_pool, pkt, sent, received, pool_hist>>

(* The write() of find_ip_addr *)
choose_tier2_write(w) ==
    /\ pc[w] = "find_ip_addr"
    /\ PoolWrite(w)
    /\ Goto(w, "find_ip_addr_body")
    /\ KeepLock
    /\ UNCHANGED <<phase, env, built, scan, probe, db, addr_pool, pkt, sent, received, pool_hist>>

(* The body of find_ip_addr under the guard, and the probe of its result *)
choose_tier2_remove(w) ==
    /\ pc[w] = "find_ip_addr_body"
    /\ PoolDrop(w)
    /\ LET f == find_ip_addr(addr_pool, loc[w].ip)
       IN /\ addr_pool' = f.pool
          /\ \E avail \in BOOLEAN :
               IF ~f.some THEN Goto(w, "choose_tier3") /\ KeepLock
               ELSE IF avail THEN Chosen(w, f.ip)
               ELSE GotoBusy(w, "choose_tier3") /\ KeepLock
    /\ UNCHANGED <<phase, env, built, scan, probe, db, pkt, sent, received, pool_hist>>

(* The write() of find_available_ip_addr, once per turn of the loop *)
choose_tier3_write(w) ==
    /\ pc[w] = "choose_tier3"
    /\ PoolWrite(w)
    /\ Goto(w, "find_available_ip_addr")
    /\ KeepLock
    /\ UNCHANGED <<phase, env, built, scan, probe, db, addr_pool, pkt, sent, received, pool_hist>>

(* lock.pop() under the guard, and the probe of its result *)
choose_tier3_pop(w) ==
    /\ pc[w] = "find_available_ip_addr"
    /\ PoolDrop(w)
    /\ LET f == find_available_ip_addr(addr_pool)
       IN /\ addr_pool' = f.pool
          /\ IF ~f.some THEN Ends(w, "err", "none") /\ Unlock
             ELSE \E avail \in BOOLEAN :
                    IF avail THEN Chosen(w, f.ip)
                    ELSE GotoBusy(w, "choose_tier3") /\ KeepLock
    /\ UNCHANGED <<phase, env, built, scan, probe, db, pkt, sent, received, pool_hist>>

(* The write() of release_ip_addr, the guard of db_conn still held *)
release_pool_write(w) ==
    /\ pc[w] = "release_pool"
    /\ PoolWrite(w)
    /\ Goto(w, "release_insert")
    /\ KeepLock
    /\ UNCHANGED <<phase, env, built, scan, probe, db, addr_pool, pkt, sent, received, pool_hist>>

(* lock.insert(0, ciaddr) and Ok(()): both guards are dropped *)
release_pool_insert(w) ==
    /\ pc[w] = "release_insert"
    /\ PoolDrop(w)
    /\ addr_pool' = insert_front(addr_pool, ciaddr(Buf(w)))
    /\ Unlock
    /\ Ends(w, "ok", "none")
    /\ UNCHANGED <<phase, env, built, scan, probe, db, pkt, sent, received, pool_hist>>

(* Requests that take the locks: a DISCOVER that panics under the mutex, *)
(* a DISCOVER with a requested address (find_ip_addr, then the loop over *)
(* find_available_ip_addr), a selecting REQUEST and a RELEASE            *)
LockTraffic ==
    {i \in Requests :
        \/ Messages[i].type = DHCPDISCOVER
              /\ (Messages[i].layout = "canonical" \/ Messages[i].req # <<>>)
        \/ Messages[i].type = DHCPREQUEST
              /\ Messages[i].svr # <<>> /\ Messages[i].mac = Mac(2)
        \/ Messages[i].type = DHCPRELEASE
              /\ Messages[i].mac = Mac(1) /\ Messages[i].ciaddr # UNSPECIFIED}

(* A step of the thread of worker w *)
WorkerLocks(w) ==
    \/ handle_dhcp(w)
    \/ choose_lock(w)
    \/ choose_tier1(w)
    \/ choose_tier2_lookup(w)
    \/ choose_tier2_write(w)
    \/ choose_tier2_remove(w)
    \/ choose_tier3_write(w)
    \/ choose_tier3_pop(w)
    \/ offer_send(w)
    \/ allocate_ip_addr(w)
    \/ allocate_lock(w)
    \/ allocate_tx(w)
    \/ release_lock(w)
    \/ release_tx(w)
    \/ release_pool_write(w)
    \/ release_pool_insert(w)

NextLocks ==
    \/ Startup
    \/ \E w \in Workers :
        \/ main_recv_of(w, LockTraffic)
        \/ WorkerLocks(w)

(* The places where a thread takes the write guard of addr_pool *)
PoolLockPoints == {"find_ip_addr", "choose_tier3", "release_pool"}

(* The positions of a thread that handles a request of LockTraffic *)
Positions ==
    {"handle_dhcp", "offer_network_addr", "choose_tier1", "choose_tier2",
     "find_ip_addr", "find_ip_addr_body", "choose_tier3", "find_available_ip_addr", "offer_send",
     "allocate_ip_addr", "allocate_lock", "allocate_tx",
     "release_ip_addr", "release_tx", "release_pool", "release_insert", "done"}

(* The thread of worker w can take a step: it is running and the lock   *)
(* it is about to take, if any, is free                                 *)
Runnable(w) ==
    /\ Handling(w)
    /\ pc[w] \in LockPoints => db_lock = 0
    /\ pc[w] \in PoolLockPoints => pool_lock = 0

(* A step of the thread of worker w, seen from outside: it is runnable  *)
(* and its position changes (every step of WorkerLocks moves pc[w])     *)
Scheduled(w) ==
    /\ Runnable(w)
    /\ \E l \in Positions \ {pc[w]} : pc' = [pc EXCEPT ![w] = l]

(* Every spawned thread that can take a step is scheduled in the end *)
SpecLocks ==
    /\ Init
    /\ [][NextLocks]_vars
    /\ \A w \in Workers : WF_pc(Scheduled(w))

(* Whoever holds the write guard of the pool holds the mutex of the store *)
LockOrder == pool_lock # 0 => db_lock = pool_lock

(* C22: the two locks are always taken in the order store, pool, and    *)
(* every thread that handles a DISCOVER, a REQUEST or a RELEASE comes   *)
(* to its end (Ok, Err or panic), whatever the interleaving: none waits *)
(* for a lock forever.                                                  *)
C22_WorkersFinish ==
    /\ []LockOrder
    /\ \A w \in Workers : Handling(w) ~> (pc[w] = "done")

(* C22: a thread holds both locks inside a pool operation while another *)
(* thread waits for the mutex of the store                              *)
C22_Witness ==
    \E w, v \in Workers :
        /\ w # v
        /\ pool_lock = w /\ db_lock = w
        /\ pc[w] \in {"find_ip_addr_body", "find_available_ip_addr", "release_insert"}
        /\ pc[v] \in LockPoints

(* ------------------------------------------------------------------ *)
(* util::is_ip_addr_available alone: one call after the other, with the *)
(* ICMP packets the raw socket of the call is handed meanwhile.  The    *)
(* socket is a Layer4(Ipv4(Icmp)) transport channel: it is handed every *)
(* ICMP packet that reaches the host, whoever sent it.                  *)
(* ------------------------------------------------------------------ *)
MaxIcmp == 2

IcmpTypes == {"EchoReply", "EchoRequest", "DestinationUnreachable"}

(* The candidates probed, and the hosts that send ICMP packets *)
ProbeTargets == {Host(2), Host(3)}

IcmpPackets == [icmp_type : IcmpTypes, source : ProbeTargets]

InitProbe ==
    /\ env = DefaultEnv
    /\ db = <<>>
    /\ InitCommon

(* transport_channel()?, send_to()? and thread::spawn: an error of the  *)
(* channel or of the send is returned at once; otherwise the spawned    *)
(* thread waits in iter.next() and the caller in recv_timeout           *)
probe_send(target) ==
    /\ probe.stage = "idle"
    /\ \E flt \in {"none", "socket"} :
         IF flt = "socket"
         THEN probe' = [NoProbe EXCEPT !.stage = "returned", !.target = target,
                                       !.result = "error"]
         ELSE probe' = [NoProbe EXCEPT !.stage = "waiting", !.target = target,
                                       !.listener = "next", !.window_open = TRUE]
    /\ UNCHANGED <<phase, env, built, scan, db, addr_pool, pool_lock, db_lock, db_poisoned,
                   workerVars, sent, received, pool_hist>>

(* An ICMP packet reaches the host within the 200 ms of the call.  The  *)
(* spawned thread takes the first one only: iter.next().unwrap(), then  *)
(* sender.send(true) for an EchoReply and the end of the thread (the    *)
(* sender is dropped) for any other type                                *)
icmp_arrives(packet) ==
    /\ probe.window_open
    /\ Len(probe.heard) < MaxIcmp
    /\ probe' = [probe EXCEPT
                   !.heard = Append(@, packet),
                   !.listener = IF @ # "next" THEN @
                                ELSE IF packet.icmp_type = "EchoReply" THEN "sent"
                                ELSE "dropped"]
    /\ UNCHANGED <<phase, env, built, scan, db, addr_pool, pool_lock, db_lock, db_poisoned,
                   workerVars, sent, received, pool_hist>>

(* receiver.recv_timeout(200 ms) returns: Ok(true) when the thread sent, *)
(* Err(Disconnected) when the thread ended without sending, and          *)
(* Err(Timeout) when the 200 ms are over; is_ok() decides the result     *)
probe_recv_timeout ==
    /\ probe.stage = "waiting"
    /\ probe' = [probe EXCEPT
                   !.stage = "returned",
                   !.result = IF probe.listener = "sent" THEN "in_use" ELSE "available",
                   !.window_open = IF probe.listener = "next" THEN FALSE ELSE @]
    /\ UNCHANGED <<phase, env, built, scan, db, addr_pool, pool_lock, db_lock, db_poisoned,
                   workerVars, sent, received, pool_hist>>

(* The 200 ms since the call are over, the call having returned before *)
probe_window_closes ==
    /\ probe.stage = "returned"
    /\ probe.window_open
    /\ probe' = [probe EXCEPT !.window_open = FALSE]
    /\ UNCHANGED <<phase, env, built, scan, db, addr_pool, pool_lock, db_lock, db_poisoned,
                   workerVars, sent, received, pool_hist>>

(* The caller goes on to its next candidate *)
probe_next ==
    /\ probe.stage = "returned"
    /\ ~probe.window_open
    /\ probe' = NoProbe
    /\ UNCHANGED <<phase, env, built, scan, db, addr_pool, pool_lock, db_lock, db_poisoned,
                   workerVars, sent, received, pool_hist>>

NextProbe ==
    \/ \E target \in ProbeTargets : probe_send(target)
    \/ \E packet \in IcmpPackets : icmp_arrives(packet)
    \/ probe_recv_timeout
    \/ probe_window_closes
    \/ probe_next

SpecProbe == InitProbe /\ [][NextProbe]_vars

(* The echo-replies of the probed address among the packets heard *)
MatchingReplies ==
    {i \in 1..Len(probe.heard) :
        /\ probe.heard[i].icmp_type = "EchoReply"
        /\ probe.heard[i].source = probe.target}

(* C23: once the 200 ms of a call are over, its result is "in use" when *)
(* an echo-reply of the probed address arrived within them and          *)
(* "available" when none did, whatever else arrived: packets of other   *)
(* hosts and of other types change nothing.                             *)
C23_ProbeMatchesReply ==
    (probe.stage = "returned" /\ ~probe.window_open /\ probe.result # "error")
        => (probe.result = "in_use" <=> MatchingReplies # {})

(* The addresses that successive calls of find_available_ip_addr return *)
(* from a pool, until it returns None                                   *)
RECURSIVE Drain(_)
Drain(pool) ==
    LET f == find_available_ip_addr(pool)
    IN IF f.some THEN <<f.ip>> \o Drain(f.pool) ELSE <<>>

(* C24: after give_back(a) on a pool P, the calls of take_next return   *)
(* the addresses of P, in the order they would have had without the     *)
(* give_back, and a after all of them.                                  *)
C24_GivenBackComesLast ==
    pool_hist.op = "give_back" =>
        Drain(addr_pool) = Drain(pool_hist.before) \o <<pool_hist.arg>>

(* C24: an address was given back to a pool that holds numerically      *)
(* greater addresses, and none equal to it                              *)
C24_Witness ==
    /\ pool_hist.op = "give_back"
    /\ Len(pool_hist.before) >= 2
    /\ \A i \in 1..Len(pool_hist.before) :
          u32_from(pool_hist.arg) < u32_from(pool_hist.before[i])

(* ------------------------------------------------------------------ *)
(* DhcpPacket::option alone: a buffer that DhcpPacket::new accepts, and *)
(* one call of option() on it                                           *)
(* ------------------------------------------------------------------ *)
MaxItems == 2

(* The members of DhcpOptions *)
ScanOptions ==
    {MessageType, IpAddressLeaseTime, ServerIdentifier, RequestedIpAddress,
     SubnetMask, Router, Dns, End}

(* What an options area is made of: a Pad byte or an option with its value *)
ScanItems ==
    {<<0>>,
     TLV(MessageType.code, <<DHCPDISCOVER>>),
     TLV(MessageType.code, <<DHCPREQUEST>>),
     TLV(RequestedIpAddress.code, Host(2)),
     TLV(ServerIdentifier.code, Host(6))}

RECURSIVE Flatten(_)
Flatten(items) == IF items = <<>> THEN <<>> ELSE Head(items) \o Flatten(Tail(items))

ItemLists == UNION {[1..n -> ScanItems] : n \in 0..MaxItems}

(* The fixed fields and the cookie in front of an options area, and the *)
(* zero fill up to `size` bytes (none when the area reaches that far)   *)
ScanBuffer(area, size) ==
    LET head == Zeros(OPTIONS) \o MAGIC_COOKIE \o area
    IN head \o Zeros(IF size > Len(head) THEN size - Len(head) ELSE 0)

(* Well-formed areas closed by End, alone in the datagram or zero-filled; *)
(* areas without End; an option whose length byte points past the end;   *)
(* and the shortest buffers DhcpPacket::new accepts                      *)
ScanInputs ==
    {[buf |-> ScanBuffer(Flatten(l) \o <<End.code>>, size), shape |-> "well_formed"] :
        l \in ItemLists, size \in {0, InboundSize}}
    \cup {[buf |-> ScanBuffer(Flatten(l), 0), shape |-> "no_end"] : l \in ItemLists}
    \cup {[buf |-> ScanBuffer(Flatten(l) \o <<MessageType.code, DHCP_SIZE % 256>>, 0),
           shape |-> "long_length"] : l \in ItemLists}
    \cup {[buf |-> SubSeq(ScanBuffer(<<>>, 0), 1, n), shape |-> "short"] :
            n \in PACKET_MINIMUM_SIZE..(OPTIONS + Len(MAGIC_COOKIE))}

InitOption ==
    /\ env = DefaultEnv
    /\ db = <<>>
    /\ InitCommon

(* recv_from and DhcpPacket::new: a buffer it rejects is dropped *)
option_packet(input) ==
    /\ scan = NoScan
    /\ built = NoBuilt
    /\ IF DhcpPacket_new(input.buf)
       THEN scan' = [NoScan EXCEPT !.buf = input.buf, !.shape = input.shape]
       ELSE scan' = scan
    /\ UNCHANGED <<phase, env, built, db, addr_pool, pool_lock, db_lock, db_poisoned,
                   workerVars, sent, received, pool_hist, probe>>

(* packet.option(opt) *)
option_call(opt) ==
    /\ scan.shape # "none"
    /\ ~scan.called
    /\ scan' = [scan EXCEPT !.opt = opt, !.called = TRUE, !.result = option(scan.buf, opt)]
    /\ UNCHANGED <<phase, env, built, db, addr_pool, pool_lock, db_lock, db_poisoned,
                   workerVars, sent, received, pool_hist, probe>>

(* The packet is dropped and the next one read *)
option_done ==
    /\ scan.called
    /\ scan' = NoScan
    /\ UNCHANGED <<phase, env, built, db, addr_pool, pool_lock, db_lock, db_poisoned,
                   workerVars, sent, received, pool_hist, probe>>

NextOption ==
    \/ \E input \in ScanInputs : option_packet(input)
    \/ \E opt \in ScanOptions : option_call(opt)
    \/ option_done

SpecOption == InitOption /\ [][NextOption]_vars

(* The reference scan of an options area from `index` on: Pad moves on  *)
(* by one byte, an option that does not match by 2 + its length, the    *)
(* first option that matches gives its value, End gives not found       *)
RECURSIVE reference_scan(_, _, _)
reference_scan(opts, index, code) ==
    IF index >= Len(opts) THEN OptPanic
    ELSE IF At(opts, index) = End.code THEN OptNone
    ELSE IF At(opts, index) = 0 THEN reference_scan(opts, index + 1, code)
    ELSE IF index + 1 >= Len(opts) THEN OptPanic
    ELSE LET len == At(opts, index + 1)
         IN IF At(opts, index) # code
            THEN reference_scan(opts, index + 2 + len, code)
            ELSE IF SliceOk(opts, index + 2, index + 2 + len)
            THEN OptSome(Slice(opts, index + 2, index + 2 + len))
            ELSE OptPanic

(* C25: on a well-formed options area closed by End, option(code)       *)
(* returns what the reference scan from the byte after the magic cookie *)
(* returns.                                                             *)
C25_OptionEqualsReferenceScan ==
    (scan.called /\ scan.shape = "well_formed") =>
        scan.result = reference_scan(options(scan.buf), Len(MAGIC_COOKIE), scan.opt.code)

(* C30: on every buffer that DhcpPacket::new accepts, whatever its       *)
(* options area (too short for the cookie, without End, or with a       *)
(* length byte pointing past the end), option(code) returns a value or  *)
(* not found: it never indexes past the end of the buffer (which ends   *)
(* the thread with a panic).                                            *)
C30_OptionStaysInsideBuffer ==
    scan.called => scan.result.kind \in {"some", "none"}

(* ------------------------------------------------------------------ *)
(* The options of a reply alone: set_magic_cookie and the calls of      *)
(* set_option of make_dhcp_packet, one call a step, on a zeroed packet  *)
(* ------------------------------------------------------------------ *)
InitArea ==
    /\ env \in Environments
    /\ db = <<>>
    /\ InitCommon

(* let mut cursor = OPTIONS; dhcp_packet.set_magic_cookie(&mut cursor) *)
area_cookie(message_type) ==
    /\ built.stage = "none"
    /\ built' = [stage |-> "writing",
                 b |-> set_magic_cookie(Builder(Zeros(DHCP_SIZE), OPTIONS)),
                 todo |-> ReplyOptions(Server, message_type),
                 written |-> <<>>]
    /\ UNCHANGED <<phase, env, db, addr_pool, pool_lock, db_lock, db_poisoned,
                   workerVars, sent, received, pool_hist, probe, scan>>

(* The next dhcp_packet.set_option(option, data, &mut cursor); `at` is *)
(* the cursor it is called with                                       *)
area_set_option ==
    /\ built.stage = "writing"
    /\ built.todo # <<>>
    /\ LET next == Head(built.todo)
       IN built' = [built EXCEPT
                      !.b = set_option(@, next.opt, next.data),
                      !.todo = Tail(@),
                      !.written = Append(@, [opt |-> next.opt, data |-> next.data,
                                             at |-> built.b.cursor])]
    /\ UNCHANGED <<phase, env, db, addr_pool, pool_lock, db_lock, db_poisoned,
                   workerVars, sent, received, pool_hist, probe, scan>>

(* Ok(dhcp_packet) *)
area_built ==
    /\ built.stage = "writing"
    /\ built.todo = <<>>
    /\ built' = [built EXCEPT !.stage = "built"]
    /\ UNCHANGED <<phase, env, db, addr_pool, pool_lock, db_lock, db_poisoned,
                   workerVars, sent, received, pool_hist, probe, scan>>

NextArea ==
    \/ \E message_type \in ReplyTypes : area_cookie(message_type)
    \/ area_set_option
    \/ area_built

SpecArea == InitArea /\ [][NextArea]_vars

(* The bytes of an option as the claim lays it out: code, length of the *)
(* value, value; End is its code alone                                  *)
OptionBytes(w) ==
    IF w.opt = End THEN <<End.code>> ELSE <<w.opt.code, Len(w.data.v)>> \o w.data.v

(* C26: in a built reply each option stands where the one before it     *)
(* ends (the first at the byte after the cookie), that is 2 + the length *)
(* of its value further, and its code, length and value are still in    *)
(* the packet: the area reads message type, lease time, server          *)
(* identifier, subnet mask, router, DNS, End, each whole.               *)
C26_OptionsConsecutive ==
    built.stage = "built" =>
        /\ ~built.b.panicked
        /\ \A i \in 1..Len(built.written) :
              LET w == built.written[i]
                  start == IF i = 1 THEN OPTIONS + Len(MAGIC_COOKIE)
                           ELSE built.written[i - 1].at
                                + Len(OptionBytes(built.written[i - 1]))
              IN /\ w.at = start
                 /\ Slice(built.b.buf, w.at, w.at + Len(OptionBytes(w))) = OptionBytes(w)

ReleasedStores == InitialStores \cup {<<Lease(Mac(1), Host(2), 1)>>}

InitOffer ==
    /\ env = DefaultEnv
    /\ db \in ReleasedStores
    /\ InitCommon

Discovers == {i \in Requests : Messages[i].type = DHCPDISCOVER}

NextOffer ==
    \/ Startup
    \/ \E w \in Workers :
        \/ main_recv_of(w, Discovers)
        \/ handle_dhcp(w)
        \/ choose_lock(w)
        \/ choose_tier1(w)
        \/ choose_tier2(w)
        \/ choose_tier3(w)
        \/ offer_send(w)

SpecOffer == InitOffer /\ [][NextOffer]_vars

Leasable == SeqToSet(init_addr_pool(<<>>, env, prefixed_network_addr_of(env)))

RecordedAddrs == {parse(db[i].ip_addr) : i \in 1..Len(db)}

(* C29: address conservation. No statement removes a record, so the      *)
(* startup pool is Leasable less addresses that stay recorded: once the  *)
(* server serves, every leasable address is a member of the pool or the  *)
(* address of some record of the store.                                  *)
C29_AddressConservation ==
    phase = "serving" => \A a \in Leasable : a \in PoolSet \/ a \in RecordedAddrs

====
